---- MODULE Spec2Model ----
(***************************************************************************)
(* The incremental protobuf writer and decoder of the Perfetto Rust SDK:   *)
(* pb_utils.rs (primitive codec), stream_writer.rs (StreamWriter),         *)
(* pb_msg.rs (PbMsg and its chain of PbMsgSizeField) and pb_decoder.rs     *)
(* (PbDecoder).  The chunk provider behind the StreamWriter and the field  *)
(* parser behind the PbDecoder are C functions reached over FFI.           *)
(* And track_event.rs: the statics and functions of a category module     *)
(* (track_event_categories!), and the track_event! and                    *)
(* scoped_track_event! macros.                                            *)
(***************************************************************************)
EXTENDS Integers, Sequences, FiniteSets, TLC

VARIABLES
    kind,       \* the chunk provider: "heap" (HeapBuffer) or "shm" (trace writer)
    cs,         \* capacity in bytes of every chunk the provider hands out
    writer,     \* PerfettoStreamWriter: impl_, begin, end, write_ptr, written_previously
    chunks,     \* the provider's chunks, oldest first; the last one is active
    patches,    \* the provider's patch list (shm): chunk, offset, 4 bytes
    fault,      \* "none", or the panic / undefined behaviour that ended the run
    msgs,       \* the PbMsg values alive: the root and the open nested messages
    finlog,     \* ghost: one record per placeholder written by finalize
    patchlog,   \* ghost: one record per call of PbMsgSizeField::patch
    pc,         \* "writing", "done" (root finalized), "decoding", "decoded"
    nops,       \* number of operations issued so far
    ret,        \* value returned by the root's finalize()
    closed,     \* ghost: one record per nested message append_nested has finalized
    log,        \* ghost: what the last operation was and what it observed
    out,        \* the bytes handed to the PbDecoder
    decoder,    \* PerfettoPbDecoder: read_ptr, end_ptr (offsets into out)
    items,      \* the items PbDecoder::next has yielded so far
    size_in,    \* codec check: the message size handed to finalize's length loop
    field_out,  \* codec check: the 4 bytes that loop wrote
    given,      \* codec and decoder checks: the input handed to the function
    res,        \* codec checks: what the function returned
    registered,          \* the bool guarded by the CATEGORIES_REGISTERED mutex
    mutex,               \* owner of CATEGORIES_REGISTERED and of CATEGORY_CALLBACKS
    CATEGORIES,          \* static mut CATEGORIES: impl_, enabled, cat_iid of each
    CATEGORY_CALLBACKS,  \* the callbacks guarded by the CATEGORY_CALLBACKS mutex
    impls,               \* the category implementations the C library created
    threads,             \* each thread's stack of calls into the category module
    session,             \* the categories the tracing session in progress enables
    events,              \* ghost: the track events emitted, oldest first
    touches,             \* ghost: each use of a category by emit(), trace(), is_enabled()
    history              \* ghost: the register() and unregister() calls that returned Ok

(* The state of a track event category module (track_event_categories!) *)
teVars == <<registered, mutex, CATEGORIES, CATEGORY_CALLBACKS, impls, threads,
            session, events, touches, history>>

(* The state of the protobuf writer, decoder and codec *)
pbVars == <<kind, cs, writer, chunks, patches, fault, msgs, finlog, patchlog, pc,
            nops, ret, closed, log, out, decoder, items, size_in, field_out,
            given, res>>

vars == <<pbVars, teVars>>

----------------------------------------------------------------------------
(* Bounds of the model *)

MaxOps == 3
MaxDepth == 2
MaxStreamOps == 4

(* Chunk capacities: 4 is the smallest that holds a length placeholder. *)
ChunkSizes == {4, 6, 16}
SmallChunkSizes == {1, 2}
(* Field numbers: 16 is the first whose tag takes two bytes. *)
FieldIds == {3, 16}
VarintValues == {300}
DelimitedIds == {10}
NestedIds == {3}
Payloads == {<<98, 97, 114>>, <<104, 101, 108, 108, 111, 33, 33>>}
Fixed32Ids == {4}
Fixed32Values == {305419896}
Fixed64Ids == {2}
Fixed64Values == {67305985}
ReserveSizes == {1, 4, 8}
StreamChunks == {<<>>, <<7>>, <<1, 2, 3>>, <<1, 2, 3, 4, 5, 6, 7>>}
(* Sizes of a nested message: small ones, and the ones around 2^7, 2^14,  *)
(* 2^21, 2^28 and 2^29.                                                   *)
SizeInputs ==
    (0..47) \cup {127, 128, 16383, 16384, 2097151, 2097152,
                  268435455, 268435456, 268435457, 402653184, 536870911,
                  536870912, 536870913, 1073741824}

----------------------------------------------------------------------------
(* pb_utils.rs *)

Varint == 0
Fixed64 == 1
Delimited == 2
Fixed32 == 5

PB_VARINT_MAX_SIZE_64 == 10
PB_VARINT_MAX_SIZE_32 == 5

MakeTagShift4(field_id, wire_type) == ((field_id % 536870912) * 16) + wire_type

(* (field_id << 3) | wire_type on u32: the shift drops the top three bits. *)
pb_make_tag(field_id, wire_type) == ((field_id % 536870912) * 8) + wire_type

RECURSIVE pb_write_varint(_)
pb_write_varint(value) ==
    IF value >= 128
    THEN <<(value % 128) + 128>> \o pb_write_varint(value \div 128)
    ELSE <<value % 128>>

RECURSIVE LittleEndian(_, _)
LittleEndian(value, n) ==
    IF n = 0 THEN <<>> ELSE <<value % 256>> \o LittleEndian(value \div 256, n - 1)

pb_write_fixed32(value) == LittleEndian(value, 4)

pb_write_fixed64(value) == LittleEndian(value, 8)

----------------------------------------------------------------------------
(* The chunk provider and the addresses it hands out *)

Null == 0
Uninit == 256

ChunkBase(k) == 32 * k

PatchSlot(j) == 2048 + 4 * j

NewChunkBytes(n) == [i \in 1..n |-> Uninit]

(* The state the operators below transform. *)
State == [kind |-> kind, cs |-> cs, writer |-> writer, chunks |-> chunks,
          patches |-> patches, fault |-> fault, msgs |-> msgs, finlog |-> finlog,
          patchlog |-> patchlog]

Fail(s, what) == [s EXCEPT !.fault = what]

Cur(s) == Len(s.chunks)

(* A store of one byte through a raw pointer. *)
WriteAt(s, addr, b) ==
    LET k == addr \div 32
        off == addr % 32
        j == (addr - 2048) \div 4
    IN  IF s.fault # "none" THEN s
        ELSE IF addr >= 2048
        THEN IF j >= 1 /\ j <= Len(s.patches)
             THEN [s EXCEPT !.patches[j].bytes[((addr - 2048) % 4) + 1] = b]
             ELSE Fail(s, "wild write")
        ELSE IF k >= 1 /\ k <= Len(s.chunks) /\ off < s.cs
        THEN IF s.kind = "shm" /\ k < Len(s.chunks)
             THEN Fail(s, "write into a chunk the provider has taken back")
             ELSE [s EXCEPT !.chunks[k].bytes[off + 1] = b]
        ELSE Fail(s, "write outside every chunk")

RECURSIVE WriteBytesAt(_, _, _)
WriteBytesAt(s, addr, bytes) ==
    IF bytes = <<>> THEN s
    ELSE WriteBytesAt(WriteAt(s, addr, Head(bytes)), addr + 1, Tail(bytes))

(* ScatteredStreamWriter::Extend: close the active chunk, take a new one. *)
Extend(s) ==
    LET w == s.writer
        used == w.write_ptr - w.begin
        old == IF Cur(s) = 0 THEN s.chunks
               ELSE [s.chunks EXCEPT ![Cur(s)].used = used]
        k == Cur(s) + 1
    IN  [s EXCEPT !.chunks = Append(old, [bytes |-> NewChunkBytes(s.cs), used |-> 0]),
                  !.writer = [w EXCEPT !.begin = ChunkBase(k),
                                       !.end = ChunkBase(k) + s.cs,
                                       !.write_ptr = ChunkBase(k),
                                       !.written_previously = @ + used]]

(* PerfettoStreamWriterNewChunk *)
NewChunk(s) == IF s.fault # "none" THEN s ELSE Extend(s)

Min(a, b) == IF a <= b THEN a ELSE b

(* PerfettoStreamWriterAppendBytesSlowpath: fill the active chunk, extend,  *)
(* and go on until every byte is written.                                  *)
Advance(wr, n) == [wr EXCEPT !.writer.write_ptr = @ + n]

RECURSIVE AppendBytesSlowpath(_, _)
WriteBurst(e, src, burst) ==
    AppendBytesSlowpath(
        Advance(WriteBytesAt(e, e.writer.write_ptr, SubSeq(src, 1, burst)), burst),
        SubSeq(src, burst + 1, Len(src)))

FillChunk(e, src) == WriteBurst(e, src, Min(e.writer.end - e.writer.write_ptr, Len(src)))

AppendBytesSlowpath(s, src) ==
    IF s.fault # "none" \/ src = <<>> THEN s
    ELSE FillChunk(IF s.writer.write_ptr >= s.writer.end THEN Extend(s) ELSE s, src)

(* PerfettoStreamWriterReserveBytesSlowpath: one new chunk, then advance the *)
(* cursor by size.  A size above the chunk capacity fails the provider's     *)
(* debug check (dcheck) or, without it, leaves the cursor past the end.     *)
AdvanceInNewChunk(e, size, dcheck) ==
    IF size > e.cs /\ dcheck
    THEN Fail(e, "provider abort: reservation larger than a chunk")
    ELSE [e EXCEPT !.writer.write_ptr = @ + size]

ReserveBytesSlowpath(s, size, dcheck) ==
    IF s.fault # "none" THEN s ELSE AdvanceInNewChunk(Extend(s), size, dcheck)

(* PerfettoStreamWriterAnnotatePatch: zero the 4 bytes, then let the provider *)
(* translate the address.  The heap buffer keeps every chunk and returns the *)
(* address unchanged; the trace writer returns a slot of its patch list.     *)
TranslatePatch(z, patch_addr) ==
    IF z.fault # "none" THEN [s |-> z, ptr |-> patch_addr]
    ELSE IF z.kind = "heap" THEN [s |-> z, ptr |-> patch_addr]
    ELSE [s |-> [z EXCEPT !.patches =
                    Append(@, [chunk |-> patch_addr \div 32,
                               off |-> patch_addr % 32,
                               bytes |-> <<0, 0, 0, 0>>])],
          ptr |-> PatchSlot(Len(z.patches) + 1)]

AnnotatePatch(s, patch_addr) ==
    TranslatePatch(WriteBytesAt(s, patch_addr, <<0, 0, 0, 0>>), patch_addr)

----------------------------------------------------------------------------
(* stream_writer.rs *)

(* assert!(writer.end >= writer.write_ptr) in available_bytes *)
AvailableBytesFails(s) == s.writer.end < s.writer.write_ptr

available_bytes(s) == s.writer.end - s.writer.write_ptr

(* assert!(writer.begin <= writer.write_ptr) in get_written_size *)
WrittenSizeFails(s) == s.writer.write_ptr < s.writer.begin

get_written_size(s) ==
    s.writer.written_previously + (s.writer.write_ptr - s.writer.begin)

has_valid_writer(s) == s.writer.impl_

AppendBytesNoSlowpath(s, src) ==
    IF s.fault # "none" THEN s
    ELSE IF ~s.writer.impl_ THEN Fail(s, "panic: no output")
    ELSE Advance(s, Len(src))

ReserveNoAdvance(s, size) ==
    IF ~s.writer.impl_ THEN [s |-> Fail(s, "panic: no output"), ptr |-> Null]
    ELSE [s |-> s, ptr |-> s.writer.write_ptr]

append_bytes_unchecked(s, src) ==
    IF ~s.writer.impl_ THEN Fail(s, "panic: no output")
    ELSE Advance(WriteBytesAt(s, s.writer.write_ptr, src), Len(src))

reserve_bytes_unchecked(s, size) ==
    IF ~s.writer.impl_ THEN [s |-> Fail(s, "panic: no output"), ptr |-> Null]
    ELSE [s |-> [s EXCEPT !.writer.write_ptr = @ + size],
          ptr |-> s.writer.write_ptr]

StreamAppendBytes(s, src) ==
    IF s.fault # "none" THEN s
    ELSE IF AvailableBytesFails(s) THEN Fail(s, "panic: available_bytes")
    ELSE IF Len(src) <= available_bytes(s) THEN append_bytes_unchecked(s, src)
    ELSE IF ~s.writer.impl_ THEN Fail(s, "panic: no output")
    ELSE AppendBytesSlowpath(s, src)

(* let start_ptr = writer.write_ptr.wrapping_sub(size) *)
ReservedArea(r, size) == [s |-> r, ptr |-> r.writer.write_ptr - size]

(* reserve_bytes: the new state and the address of the reserved area. *)
reserve_bytes(s, size, dcheck) ==
    IF s.fault # "none" THEN [s |-> s, ptr |-> Null]
    ELSE IF AvailableBytesFails(s)
    THEN [s |-> Fail(s, "panic: available_bytes"), ptr |-> Null]
    ELSE IF size <= available_bytes(s) THEN reserve_bytes_unchecked(s, size)
    ELSE IF ~s.writer.impl_
    THEN [s |-> Fail(s, "panic: no output"), ptr |-> Null]
    ELSE ReservedArea(ReserveBytesSlowpath(s, size, dcheck), size)

(* append_byte: it holds writer.borrow_mut() across its call of            *)
(* available_bytes, which borrows the same RefCell mutably again.          *)
StreamAppendByte(s, value) ==
    IF s.fault # "none" THEN s
    ELSE IF ~s.writer.impl_ THEN Fail(s, "panic: no output")
    ELSE Fail(s, "panic: RefCell already mutably borrowed")

----------------------------------------------------------------------------
(* pb_msg.rs *)

PROTOZERO_MESSAGE_LENGTH_FIELD_SIZE == 4

InAnyChunk(s, ptr) == TRUE

InActiveChunk(s, ptr) == s.writer.begin <= ptr /\ ptr < s.writer.end

(* The four bytes at a placeholder of the active chunk *)
PlaceholderBytes(s, ptr) ==
    IF InActiveChunk(s, ptr)
    THEN [k \in 1..4 |-> s.chunks[Cur(s)].bytes[(ptr - s.writer.begin) + k]]
    ELSE <<>>

(* PbMsgSizeField::patch of message i. ghost: what was patched, in which   *)
(* state (the pointer and whether it lay in the active chunk, the size so  *)
(* far, the written size, the messages alive, whether the parent's pointer *)
(* lay in the active chunk) and what the placeholder holds afterwards.     *)
SetPtr(r, i, s) ==
    [r.s EXCEPT !.msgs[i].ptr = r.ptr,
                !.msgs[i].translated = TRUE,
                !.msgs[i].npatch = @ + 1,
                !.patchlog = Append(@,
                    [frame |-> i,
                     ptr |-> s.msgs[i].ptr,
                     active |-> InActiveChunk(s, s.msgs[i].ptr),
                     chunk |-> Cur(s),
                     size |-> s.msgs[i].size,
                     fin |-> s.msgs[i].fin,
                     written |-> get_written_size(s),
                     depth |-> Len(s.msgs),
                     reserved |-> s.msgs[i].reserved,
                     npatch |-> s.msgs[i].npatch,
                     parent_active |->
                        /\ s.msgs[i].parent # 0
                        /\ InActiveChunk(s, s.msgs[s.msgs[i].parent].ptr),
                     wrote |-> PlaceholderBytes(r.s, s.msgs[i].ptr)])]

PatchSkipped(s, i) == s

patch(s, i) ==
    IF s.fault # "none" THEN s
    ELSE IF s.msgs[i].ptr = Null THEN Fail(s, "panic: patch of a null pointer")
    ELSE SetPtr(AnnotatePatch(s, s.msgs[i].ptr), i, s)

(* PbMsgSizeField::patch_stack of message i: patch it when its pointer lies *)
(* in the active chunk, and then go on with its parent.                     *)
RECURSIVE patch_stack(_, _)
PatchParentNone(p, parent) == p

PatchParent(p, parent) == IF parent # 0 THEN patch_stack(p, parent) ELSE p

patch_stack(s, i) ==
    IF s.fault # "none" THEN s
    ELSE IF InActiveChunk(s, s.msgs[i].ptr)
    THEN PatchParent(patch(s, i), s.msgs[i].parent)
    ELSE s

(* The placeholder of message j is not finalized and points into the *)
(* active chunk.                                                     *)
PointsIntoActive(s, j) ==
    ~s.msgs[j].fin /\ InActiveChunk(s, s.msgs[j].ptr)

(* No placeholder from message j up its chain of parents points into the *)
(* active chunk.                                                         *)
RECURSIVE NoneInActive(_, _)
NoneInActive(s, j) ==
    j = 0 \/ (~PointsIntoActive(s, j) /\ NoneInActive(s, s.msgs[j].parent))

(* The placeholders that point into the active chunk, from message j up *)
(* its chain of parents, are a run that starts at j: what the walk of   *)
(* patch_stack from j reaches before it stops.                          *)
RECURSIVE ContiguousRun(_, _)
ContiguousRun(s, j) ==
    \/ j = 0
    \/ IF PointsIntoActive(s, j)
       THEN ContiguousRun(s, s.msgs[j].parent)
       ELSE NoneInActive(s, s.msgs[j].parent)

(* ghost: the overflow check made for a write through message i, with     *)
(* what the chain of placeholders looked like when the check was made.    *)
OverflowCheck(s, i) ==
    [s EXCEPT !.msgs[i].walk_ok = @ /\ ContiguousRun(s, i)]

(* PbMsg::append_bytes on message i *)
AddSize(a, i, n) ==
    IF a.fault # "none" THEN a ELSE [a EXCEPT !.msgs[i].size = @ + n]

append_bytes(s, i, bytes) ==
    IF s.fault # "none" THEN s
    ELSE IF AvailableBytesFails(s) THEN Fail(s, "panic: available_bytes")
    ELSE AddSize(StreamAppendBytes(IF Len(bytes) > available_bytes(s)
                                   THEN patch_stack(OverflowCheck(s, i), i)
                                   ELSE OverflowCheck(s, i),
                                   bytes),
                 i, Len(bytes))

append_varint(s, i, value) == append_bytes(s, i, pb_write_varint(value))

append_type0_field(s, i, field_id, value) ==
    append_bytes(s, i, pb_write_varint(pb_make_tag(field_id, Varint))
                       \o pb_write_varint(value))

append_type2_field(s, i, field_id, data) ==
    append_bytes(
        append_bytes(s, i, pb_write_varint(pb_make_tag(field_id, Delimited))
                           \o pb_write_varint(Len(data))),
        i, data)

append_fixed32_field(s, i, field_id, value) ==
    append_bytes(s, i, pb_write_varint(pb_make_tag(field_id, Fixed32))
                       \o pb_write_fixed32(value))

append_fixed64_field(s, i, field_id, value) ==
    append_bytes(s, i, pb_write_varint(pb_make_tag(field_id, Fixed64))
                       \o pb_write_fixed64(value))

(* The 4 bytes finalize's loop writes for a message of the given size:      *)
(* (size_to_write & 0xff) as u8 | msb, then size_to_write >>= 7.            *)
RECURSIVE SizeFieldBytes(_, _)
SizeFieldBytesNoMsb(size_to_write, i) ==
    [k \in 1..(PROTOZERO_MESSAGE_LENGTH_FIELD_SIZE - i) |->
        (size_to_write \div (128 ^ (k - 1))) % 128]

SizeFieldBytes(size_to_write, i) ==
    IF i = PROTOZERO_MESSAGE_LENGTH_FIELD_SIZE THEN <<>>
    ELSE <<IF i < 3 THEN (size_to_write % 128) + 128 ELSE size_to_write % 256>>
         \o SizeFieldBytes(size_to_write \div 128, i + 1)

SizeWrittenKeepPtr(wr, s, i) ==
    IF wr.fault # "none" THEN wr
    ELSE [wr EXCEPT !.msgs[i].fin = TRUE,
                    !.finlog = Append(@,
                        [ptr |-> s.msgs[i].ptr,
                         active |-> InActiveChunk(s, s.msgs[i].ptr),
                         translated |-> s.msgs[i].translated,
                         size |-> s.msgs[i].size])]

(* PbMsg::finalize of message i: the new state; the value returned is the  *)
(* message's size.                                                         *)
SizeWritten(wr, s, i) ==
    IF wr.fault # "none" THEN wr
    ELSE [wr EXCEPT !.msgs[i].ptr = Null, !.msgs[i].fin = TRUE,
                    !.finlog = Append(@,
                        [ptr |-> s.msgs[i].ptr,
                         active |-> InActiveChunk(s, s.msgs[i].ptr),
                         translated |-> s.msgs[i].translated,
                         size |-> s.msgs[i].size])]

finalize(s, i) ==
    IF s.fault # "none" THEN s
    ELSE IF s.msgs[i].ptr # Null
    THEN SizeWritten(WriteBytesAt(s, s.msgs[i].ptr, SizeFieldBytes(s.msgs[i].size, 0)),
                     s, i)
    ELSE [s EXCEPT !.msgs[i].fin = TRUE]

(* PbMsg::new: the root message of a writer. *)
NewMsg(ptr, parent, field_id, start, chunk) ==
    [ptr |-> ptr, parent |-> parent, size |-> 0, fin |-> FALSE,
     translated |-> FALSE, npatch |-> 0, id |-> field_id, start |-> start,
     chunk |-> chunk, exp |-> <<>>, reserved |-> ptr, walk_ok |-> TRUE]

PushNestedNoLengthField(r, i, field_id) ==
    IF r.s.fault # "none" THEN r.s
    ELSE [r.s EXCEPT
            !.msgs = Append(@, NewMsg(r.ptr, i, field_id, get_written_size(r.s),
                                      Cur(r.s)))]

(* append_nested up to the call of cb: tag, placeholder, the nested PbMsg. *)
PushNested(r, i, field_id) ==
    IF r.s.fault # "none" THEN r.s
    ELSE [r.s EXCEPT
            !.msgs = Append([@ EXCEPT ![i].size =
                               @ + PROTOZERO_MESSAGE_LENGTH_FIELD_SIZE],
                            NewMsg(r.ptr, i, field_id, get_written_size(r.s),
                                   Cur(r.s)))]

ReserveSizeField(t, i, field_id, dcheck) ==
    IF t.fault # "none" THEN t
    ELSE IF AvailableBytesFails(t) THEN Fail(t, "panic: available_bytes")
    ELSE PushNested(
             reserve_bytes(IF PROTOZERO_MESSAGE_LENGTH_FIELD_SIZE > available_bytes(t)
                           THEN patch_stack(OverflowCheck(t, i), i)
                           ELSE OverflowCheck(t, i),
                           PROTOZERO_MESSAGE_LENGTH_FIELD_SIZE, dcheck),
             i, field_id)

append_nested_open(s, i, field_id, dcheck) ==
    ReserveSizeField(append_varint(s, i, pb_make_tag(field_id, Delimited)),
                     i, field_id, dcheck)

(* append_nested after cb has returned: finalize the nested message (the   *)
(* last one of msgs), drop it, and add its size to its parent's.           *)
PopNested(f, n) ==
    IF f.fault # "none" THEN f
    ELSE [f EXCEPT !.msgs = [SubSeq(f.msgs, 1, n - 1) EXCEPT
                               ![f.msgs[n].parent].size = @ + f.msgs[n].size]]

append_nested_close(s) == PopNested(finalize(s, Len(s.msgs)), Len(s.msgs))

UsableAny(i) == TRUE

(* The borrow rules on append_nested(&mut self, cb: FnMut(&mut PbMsg)):     *)
(* while cb runs, the parent is mutably borrowed, so of the messages alive *)
(* only the innermost one can be called.                                   *)
Usable(i) == i = Len(msgs)

----------------------------------------------------------------------------
(* What the provider's consumer reads: the used part of every chunk in     *)
(* order, with the patch list applied (heap_buffer.rs copy_into, or the    *)
(* tracing service reading the shared memory buffer).                      *)

ChunkUsed(s, k) ==
    IF k = Cur(s) THEN s.writer.write_ptr - s.writer.begin ELSE s.chunks[k].used

ByteAt(s, k, o) ==
    LET hit == {j \in 1..Len(s.patches) :
                  /\ s.patches[j].chunk = k
                  /\ s.patches[j].off <= o
                  /\ o < s.patches[j].off + 4}
    IN  IF hit # {}
        THEN LET j == CHOOSE x \in hit : TRUE
             IN  s.patches[j].bytes[o - s.patches[j].off + 1]
        ELSE s.chunks[k].bytes[o + 1]

ChunkData(s, k) == [o \in 1..ChunkUsed(s, k) |-> ByteAt(s, k, o - 1)]

RECURSIVE ConcatChunks(_, _)
ConcatChunks(s, k) ==
    IF k > Cur(s) THEN <<>> ELSE ChunkData(s, k) \o ConcatChunks(s, k + 1)

StreamBytes(s) == ConcatChunks(s, 1)

----------------------------------------------------------------------------
(* pb_decoder.rs *)

(* PerfettoPbParseVarInt: the value and the offset after it; the offset is *)
(* left where it was when no terminating byte is found.                    *)
RECURSIVE VarIntFrom(_, _, _, _)
(* The model's integers end at 2^31 - 1: a larger value reads as that. *)
Shifted(byte, rest) ==
    [ok |-> rest.ok,
     value |-> IF rest.value >= 16777216 THEN 2147483647
               ELSE (byte % 128) + 128 * rest.value,
     next |-> rest.next]

VarIntByte(buf, pos, end, shift, byte) ==
    IF byte < 128 THEN [ok |-> TRUE, value |-> byte, next |-> pos + 1]
    ELSE Shifted(byte, VarIntFrom(buf, pos + 1, end, shift + 7))

VarIntFrom(buf, pos, end, shift) ==
    IF pos >= end \/ shift >= 64 THEN [ok |-> FALSE, value |-> 0, next |-> pos]
    ELSE VarIntByte(buf, pos, end, shift, buf[pos + 1])

OrUnparsed(r, pos) == IF r.ok THEN r ELSE [ok |-> FALSE, value |-> 0, next |-> pos]

ParseVarInt(buf, pos, end) == OrUnparsed(VarIntFrom(buf, pos, end, 0), pos)

RECURSIVE FromLittleEndian(_)
Scaled(byte, rest) == IF rest >= 8388608 THEN 2147483647 ELSE byte + 256 * rest

FromLittleEndian(bytes) ==
    IF bytes = <<>> THEN 0 ELSE Scaled(Head(bytes), FromLittleEndian(Tail(bytes)))

NoField == [status |-> "error", wire_type |-> 0, id |-> 0, integer |-> 0,
            start |-> 0, len |-> 0, read_ptr |-> 0]

VarintPayload(f, v) ==
    IF ~v.ok THEN f
    ELSE [f EXCEPT !.status = "ok", !.integer = v.value, !.read_ptr = v.next]

DelimitedPayload(f, l, end) ==
    IF ~l.ok \/ l.value > end - l.next THEN f
    ELSE [f EXCEPT !.status = "ok", !.start = l.next, !.len = l.value,
                   !.read_ptr = l.next + l.value]

FixedPayload(f, buf, at, end, n) ==
    IF at + n > end THEN f
    ELSE [f EXCEPT !.status = "ok",
                   !.integer = FromLittleEndian(SubSeq(buf, at + 1, at + n)),
                   !.read_ptr = at + n]

(* A tag whose wire type is none of 0, 1, 2, 5. The parser of the linked   *)
(* library either reports an error status for it ("strict") or hands the  *)
(* tag back with status OK and the cursor after it ("lenient"); which of  *)
(* the two is a property of the library, fixed for a decoder's lifetime.  *)
UnknownWireType(f, at, lib) ==
    IF lib = "lenient" THEN [f EXCEPT !.status = "ok", !.read_ptr = at] ELSE f

ParsePayload(buf, end, f, at, lib) ==
    IF f.wire_type = Varint THEN VarintPayload(f, ParseVarInt(buf, at, end))
    ELSE IF f.wire_type = Delimited
    THEN DelimitedPayload(f, ParseVarInt(buf, at, end), end)
    ELSE IF f.wire_type = Fixed32 THEN FixedPayload(f, buf, at, end, 4)
    ELSE IF f.wire_type = Fixed64 THEN FixedPayload(f, buf, at, end, 8)
    ELSE UnknownWireType(f, at, lib)

ParseTagged(buf, end, tag, lib) ==
    IF ~tag.ok THEN NoField
    ELSE ParsePayload(buf, end,
                      [NoField EXCEPT !.wire_type = tag.value % 8,
                                      !.id = tag.value \div 8],
                      tag.next, lib)

(* PerfettoPbDecoderParseField *)
ParseField(buf, dec) ==
    IF dec.read_ptr >= dec.end_ptr THEN [NoField EXCEPT !.status = "done"]
    ELSE ParseTagged(buf, dec.end_ptr,
                     ParseVarInt(buf, dec.read_ptr, dec.end_ptr), dec.lib)

(* PbDecoder::new; lib is the parser the program is linked with *)
PbDecoderFor(data, lib) == [read_ptr |-> 0, end_ptr |-> Len(data), lib |-> lib]

PbDecoderNew(data) == PbDecoderFor(data, "strict")

FieldKindSwapped(wire_type) ==
    CASE wire_type = 0 -> "Varint"
      [] wire_type = 1 -> "Fixed32"
      [] wire_type = 2 -> "Delimited"
      [] wire_type = 5 -> "Fixed64"
      [] OTHER -> "InvalidWireType"

(* TryFrom<u32> for PbWireType and the match of PbDecoder::next on it *)
FieldKind(wire_type) ==
    CASE wire_type = 0 -> "Varint"
      [] wire_type = 1 -> "Fixed64"
      [] wire_type = 2 -> "Delimited"
      [] wire_type = 5 -> "Fixed32"
      [] OTHER -> "InvalidWireType"

YieldNoAdvance(dec, next, k) ==
    IF next.status # "ok" THEN [some |-> FALSE, dec |-> dec]
    ELSE [some |-> TRUE,
          dec |-> dec,
          item |-> [ok |-> k # "InvalidWireType", kind |-> k,
                    id |-> next.id, wire_type |-> next.wire_type,
                    num |-> next.integer, start |-> next.start,
                    len |-> next.len]]

YieldParseError(dec, next, k) ==
    IF next.status = "done" THEN [some |-> FALSE, dec |-> dec]
    ELSE [some |-> TRUE,
          dec |-> [dec EXCEPT !.read_ptr =
                     IF next.status = "ok" THEN next.read_ptr ELSE dec.end_ptr],
          item |-> [ok |-> next.status = "ok" /\ k # "InvalidWireType",
                    kind |-> k,
                    id |-> next.id, wire_type |-> next.wire_type,
                    num |-> next.integer, start |-> next.start,
                    len |-> next.len]]

(* PbDecoder::next: None, Some(Err(InvalidWireType)) or Some(Ok((id, field))) *)
Yield(dec, next, k) ==
    IF next.status # "ok" THEN [some |-> FALSE, dec |-> dec]
    ELSE [some |-> TRUE,
          dec |-> [dec EXCEPT !.read_ptr = next.read_ptr],
          item |-> [ok |-> k # "InvalidWireType", kind |-> k,
                    id |-> next.id, wire_type |-> next.wire_type,
                    num |-> next.integer, start |-> next.start,
                    len |-> next.len]]

FieldOf(dec, next) == Yield(dec, next, FieldKind(next.wire_type))

PbDecoderNext(buf, dec) == FieldOf(dec, ParseField(buf, dec))

(* for item in PbDecoder::new(data): every item up to the first None *)
RECURSIVE CollectFrom(_, _)
CollectMore(buf, r) ==
    IF ~r.some THEN <<>>
    ELSE IF ~r.item.ok THEN <<r.item>>
    ELSE <<r.item>> \o CollectFrom(buf, r.dec)

CollectFrom(buf, dec) == CollectMore(buf, PbDecoderNext(buf, dec))

Collect(buf) == CollectFrom(buf, PbDecoderNew(buf))

Slice(buf, item) == SubSeq(buf, item.start + 1, item.start + item.len)

----------------------------------------------------------------------------
(* The state after construction, and one action per operation *)

NewWriter == [impl_ |-> FALSE, begin |-> Null, end |-> Null, write_ptr |-> Null,
              written_previously |-> 0]

NoLog == [op |-> "none", frame |-> 0, depth |-> 0, before |-> 0, n |-> 0,
          slow |-> FALSE, after_fin |-> FALSE, oversize |-> FALSE]

(* ghost: the operation just issued, on which message, the written size   *)
(* before it, the bytes it was asked to add, whether a chunk was acquired; *)
(* oversize: some reserve_bytes so far asked for more than a chunk holds.  *)
LogOf(op, i, n, r, after_fin) ==
    [op |-> op, frame |-> i, depth |-> Len(msgs),
     before |-> get_written_size(State), n |-> n,
     slow |-> Cur(r) > Cur(State), after_fin |-> after_fin,
     oversize |-> log.oversize]

(* track_event_categories! { mod test_te_ns { cat1, cat2 } } *)
CATEGORY_COUNT == 2

Categories == 1..CATEGORY_COUNT

NThreads == 2

Threads == 1..NThreads

(* &perfetto_atomic_false, the flag a category points at while it is not *)
(* registered                                                            *)
AtomicFalse == 0

(* TrackEventCategory::new *)
NewCategory == [impl_ |-> Null, enabled |-> AtomicFalse, cat_iid |-> 0]

NoThread == [stack |-> <<>>, calls |-> 0, ret |-> "none"]

(* The statics of a category module before any call: no category is  *)
(* registered, no callback is set, both mutexes are free.            *)
TeIdle ==
    /\ registered = FALSE
    /\ mutex = [reg |-> 0, cb |-> 0]
    /\ CATEGORIES = [c \in Categories |-> NewCategory]
    /\ CATEGORY_CALLBACKS = [c \in Categories |-> "None"]
    /\ impls = <<>>
    /\ threads = [t \in Threads |-> NoThread]
    /\ session = {}
    /\ events = <<>>
    /\ touches = <<>>
    /\ history = <<>>

InitWith(sizes) ==
    /\ kind \in {"heap", "shm"}
    /\ cs \in sizes
    /\ writer = NewWriter
    /\ chunks = <<>>
    /\ patches = <<>>
    /\ fault = "none"
    /\ msgs = <<>>
    /\ finlog = <<>>
    /\ patchlog = <<>>
    /\ pc = "new"
    /\ nops = 0
    /\ ret = 0
    /\ closed = <<>>
    /\ log = NoLog
    /\ out = <<>>
    /\ decoder = PbDecoderNew(<<>>)
    /\ items = <<>>
    /\ size_in = 0
    /\ field_out = <<>>
    /\ given = <<>>
    /\ res = <<>>
    /\ TeIdle

Init == InitWith(ChunkSizes)

Apply(r) ==
    /\ writer' = r.writer
    /\ chunks' = r.chunks
    /\ patches' = r.patches
    /\ fault' = r.fault
    /\ msgs' = r.msgs
    /\ finlog' = r.finlog
    /\ patchlog' = r.patchlog
    /\ UNCHANGED <<kind, cs>>

(* HeapBuffer::new (PerfettoHeapBufferCreate): the writer gets its output   *)
(* and no chunk yet.  TraceContextBase::add_packet                          *)
(* (PerfettoDsTracerImplPacketBegin): the writer is handed over positioned  *)
(* in the trace writer's chunk.                                            *)
AttachOutput ==
    /\ pc = "new"
    /\ fault = "none"
    /\ LET a == [State EXCEPT !.writer.impl_ = TRUE]
       IN  Apply(IF kind = "shm" THEN Extend(a) ELSE a)
    /\ pc' = "attached"
    /\ log' = NoLog
    /\ UNCHANGED <<nops, ret, closed, out, decoder, items, size_in, field_out,
                   given, res, teVars>>

(* PbMsg::new *)
PbMsgNew ==
    /\ pc = "attached"
    /\ fault = "none"
    /\ has_valid_writer(State)
    /\ Apply([State EXCEPT !.msgs = <<NewMsg(Null, 0, 0, get_written_size(State),
                                             Cur(State))>>])
    /\ pc' = "writing"
    /\ log' = NoLog
    /\ UNCHANGED <<nops, ret, closed, out, decoder, items, size_in, field_out,
                   given, res, teVars>>

Item(field_id, wire_type, num, bytes, nested, sub) ==
    [id |-> field_id, wt |-> wire_type, num |-> num, bytes |-> bytes,
     nested |-> nested, sub |-> sub, endp |-> 0]

(* A field emitter called on message i: r is the state it leaves. *)
Emit(r, i, item, n) ==
    /\ Apply(IF r.fault # "none" THEN r
             ELSE [r EXCEPT !.msgs[i].exp =
                     Append(@, [item EXCEPT !.endp = get_written_size(r)])])
    /\ log' = LogOf("append", i, n, r, msgs[i].fin)
    /\ nops' = nops + 1
    /\ UNCHANGED <<pc, ret, closed, out, decoder, items, size_in, field_out,
                   given, res, teVars>>

CanEmit(i) ==
    /\ pc = "writing"
    /\ fault = "none"
    /\ nops < MaxOps
    /\ i \in 1..Len(msgs)
    /\ Usable(i)

AppendType0Field ==
    \E i \in 1..Len(msgs), f \in FieldIds, v \in VarintValues :
        /\ CanEmit(i)
        /\ Emit(append_type0_field(State, i, f, v), i,
                Item(f, Varint, v, <<>>, FALSE, <<>>),
                Len(pb_write_varint(pb_make_tag(f, Varint))) + Len(pb_write_varint(v)))

AppendType2Field ==
    \E i \in 1..Len(msgs), f \in DelimitedIds, data \in Payloads :
        /\ CanEmit(i)
        /\ Emit(append_type2_field(State, i, f, data), i,
                Item(f, Delimited, 0, data, FALSE, <<>>),
                Len(pb_write_varint(pb_make_tag(f, Delimited)))
                  + Len(pb_write_varint(Len(data))) + Len(data))

AppendFixed32Field ==
    \E i \in 1..Len(msgs), f \in Fixed32Ids, v \in Fixed32Values :
        /\ CanEmit(i)
        /\ Emit(append_fixed32_field(State, i, f, v), i,
                Item(f, Fixed32, v, <<>>, FALSE, <<>>),
                Len(pb_write_varint(pb_make_tag(f, Fixed32))) + 4)

AppendFixed64Field ==
    \E i \in 1..Len(msgs), f \in Fixed64Ids, v \in Fixed64Values :
        /\ CanEmit(i)
        /\ Emit(append_fixed64_field(State, i, f, v), i,
                Item(f, Fixed64, v, <<>>, FALSE, <<>>),
                Len(pb_write_varint(pb_make_tag(f, Fixed64))) + 8)

Opened(r, i, f) ==
    /\ Apply(r)
    /\ log' = LogOf("open", i,
                    Len(pb_write_varint(pb_make_tag(f, Delimited)))
                      + PROTOZERO_MESSAGE_LENGTH_FIELD_SIZE,
                    r, msgs[i].fin)

(* append_nested: from its call to the call of cb *)
AppendNestedOpen ==
    \E i \in 1..Len(msgs), f \in NestedIds, dcheck \in BOOLEAN :
        /\ CanEmit(i)
        /\ Len(msgs) <= MaxDepth
        /\ Opened(append_nested_open(State, i, f, dcheck), i, f)
        /\ nops' = nops + 1
        /\ UNCHANGED <<pc, ret, closed, out, decoder, items, size_in, field_out,
                   given, res, teVars>>

Closed(r, n, m) ==
    /\ Apply(IF r.fault # "none" THEN r
             ELSE [r EXCEPT !.msgs[m.parent].exp =
                     Append(@, [Item(m.id, Delimited, 0, <<>>, TRUE, m.exp)
                                  EXCEPT !.endp = get_written_size(r)])])
    /\ closed' = IF r.fault # "none" THEN closed
                 ELSE Append(closed,
                        [pos |-> m.start - PROTOZERO_MESSAGE_LENGTH_FIELD_SIZE,
                         body |-> get_written_size(State) - m.start,
                         size |-> m.size,
                         parent |-> m.parent,
                         was_fin |-> m.fin,
                         chunk_open |-> m.chunk,
                         chunk_close |-> Cur(State)])
    /\ log' = LogOf("close", n, 0, r, m.fin)

(* append_nested: from the return of cb to its own return *)
AppendNestedClose ==
    /\ pc = "writing"
    /\ fault = "none"
    /\ Len(msgs) > 1
    /\ Closed(append_nested_close(State), Len(msgs), msgs[Len(msgs)])
    /\ UNCHANGED <<pc, nops, ret, out, decoder, items, size_in, field_out,
                   given, res, teVars>>

RootFinalized(r) ==
    /\ Apply(r)
    /\ ret' = msgs[1].size
    /\ out' = StreamBytes(r)
    /\ log' = LogOf("finalize", 1, 0, r, msgs[1].fin)

(* The caller's msg.finalize() on the root, after which the bytes are read *)
(* back (HeapBuffer::copy_into, read_trace_blocking).                      *)
FinalizeRoot ==
    /\ pc = "writing"
    /\ fault = "none"
    /\ Len(msgs) = 1
    /\ RootFinalized(finalize(State, 1))
    /\ pc' = "done"
    /\ UNCHANGED <<nops, closed, decoder, items, size_in, field_out,
                   given, res, teVars>>

(* PbDecoder::new(&data) *)
DecoderNew ==
    /\ pc = "done"
    /\ decoder' = PbDecoderFor(out, decoder.lib)
    /\ items' = <<>>
    /\ pc' = "decoding"
    /\ UNCHANGED <<kind, cs, writer, chunks, patches, fault, msgs, finlog, patchlog,
                   nops,
                   ret, closed, log, out, size_in, field_out,
                   given, res, teVars>>

Yielded(r) ==
    IF r.some
    THEN /\ items' = Append(items, r.item)
         /\ decoder' = r.dec
         /\ pc' = pc
    ELSE /\ pc' = "decoded"
         /\ UNCHANGED <<items, decoder>>

(* One call of PbDecoder::next *)
DecoderNext ==
    /\ pc = "decoding"
    /\ Yielded(PbDecoderNext(out, decoder))
    /\ UNCHANGED <<kind, cs, writer, chunks, patches, fault, msgs, finlog, patchlog,
                   nops,
                   ret, closed, log, out, size_in, field_out,
                   given, res, teVars>>

Next ==
    \/ AttachOutput
    \/ PbMsgNew
    \/ AppendType0Field
    \/ AppendType2Field
    \/ AppendFixed32Field
    \/ AppendFixed64Field
    \/ AppendNestedOpen
    \/ AppendNestedClose
    \/ FinalizeRoot
    \/ DecoderNew
    \/ DecoderNext

Spec == Init /\ [][Next]_vars

----------------------------------------------------------------------------
(* Properties of a message written through PbMsg and read back *)

RootExp == IF msgs = <<>> THEN <<>> ELSE msgs[1].exp

RECURSIVE Matches(_, _)
SameField(e, g, buf) ==
    /\ g.ok
    /\ g.id = e.id
    /\ g.wire_type = e.wt
    /\ IF e.nested THEN g.kind = "Delimited" /\ Matches(e.sub, Slice(buf, g))
       ELSE IF e.wt = Delimited THEN g.kind = "Delimited" /\ Slice(buf, g) = e.bytes
       ELSE g.num = e.num

SameFields(exp, got, buf) ==
    /\ Len(got) = Len(exp)
    /\ \A k \in 1..Len(exp) : SameField(exp[k], got[k], buf)

Matches(exp, buf) == SameFields(exp, Collect(buf), buf)

(* C1: the bytes of a finalized root message, read back from the buffer    *)
(* and iterated with PbDecoder, give the fields that were appended: same   *)
(* order, same field ids, same wire types, same values, nested messages    *)
(* compared field by field.                                                *)
C1_RoundTrip ==
    pc = "done" =>
        /\ fault = "none"
        /\ ret = Len(out)
        /\ Matches(RootExp, out)

C1_Witness ==
    /\ pc = "done"
    /\ Len(chunks) >= 3
    /\ Len(RootExp) = 2
    /\ RootExp[1].nested
    /\ Len(RootExp[1].sub) = 1
    /\ RootExp[1].sub[1].wt = Delimited
    /\ RootExp[2].wt = Varint
    /\ Matches(RootExp, out)

(* C3: every write of a size field by finalize goes through a pointer that *)
(* is either in the writer's current chunk or was translated by the patch  *)
(* of a chunk switch; no finalize writes through an address of a chunk the *)
(* writer has left.                                                        *)
C3_NoStalePlaceholderWrite ==
    /\ fault = "none"
    /\ \A k \in 1..Len(finlog) : finlog[k].active \/ finlog[k].translated

C3_Witness ==
    /\ pc = "done"
    /\ Len(finlog) = 2
    /\ \A k \in 1..2 : ~finlog[k].active /\ finlog[k].translated /\ finlog[k].size > 0

(* C4: a message's size is the number of bytes appended through it: while  *)
(* writing, every live message's size is the written size since it began   *)
(* (for a parent, up to where its open child begins: tag and 4 size bytes  *)
(* included); a nested finalize returns the bytes of its body; the root's  *)
(* finalize returns get_written_size().                                    *)
C4_SizeAccounting ==
    /\ (pc = "writing" /\ fault = "none") =>
          \A i \in 1..Len(msgs) :
              msgs[i].size = (IF i = Len(msgs) THEN get_written_size(State)
                              ELSE msgs[i + 1].start) - msgs[i].start
    /\ \A k \in 1..Len(closed) : closed[k].size = closed[k].body
    /\ pc = "done" => ret = get_written_size(State)

C4_Witness ==
    /\ pc = "done"
    /\ ret = get_written_size(State)
    /\ ret > cs
    /\ \E k \in 1..Len(closed) :
          /\ closed[k].body > 0
          /\ closed[k].chunk_close > closed[k].chunk_open

ExpectedKind(wt) ==
    IF wt = 0 THEN "Varint" ELSE IF wt = 1 THEN "Fixed64"
    ELSE IF wt = 2 THEN "Delimited" ELSE "Fixed32"

Surfaced(e, g) ==
    /\ g.ok
    /\ g.id = e.id
    /\ g.kind = ExpectedKind(e.wt)
    /\ e.wt # Delimited => g.num = e.num
    /\ e.wt = Delimited =>
          /\ g.start + g.len = e.endp
          /\ g.start + g.len <= Len(out)
          /\ ~e.nested => Slice(out, g) = e.bytes

(* C10: each call of PbDecoder::next consumes one field: the id is the tag *)
(* shifted right by 3, the payload is the one the wire type names (0 a     *)
(* varint, 1 eight bytes, 2 a length and that many bytes as a slice of the *)
(* buffer, 5 four bytes), the cursor ends exactly after the field, and     *)
(* every field of the buffer is surfaced, none skipped.                    *)
C10_DecoderStep ==
    pc \in {"decoding", "decoded"} =>
        /\ Len(items) <= Len(RootExp)
        /\ \A k \in 1..Len(items) : Surfaced(RootExp[k], items[k])
        /\ decoder.read_ptr = (IF items = <<>> THEN 0 ELSE RootExp[Len(items)].endp)
        /\ pc = "decoded" => Len(items) = Len(RootExp)

C10_Witness ==
    /\ pc = "decoded"
    /\ Len(items) = 3
    /\ {items[k].kind : k \in 1..3} = {"Fixed64", "Delimited", "Fixed32"}
    /\ decoder.read_ptr = Len(out)

----------------------------------------------------------------------------
(* Chunks smaller than the size field *)

InitSmallChunk == InitWith(SmallChunkSizes \cup ChunkSizes)

SpecSmallChunk == InitSmallChunk /\ [][Next]_vars

LengthIs(v, pos, body) ==
    /\ v.ok
    /\ v.next = pos + PROTOZERO_MESSAGE_LENGTH_FIELD_SIZE
    /\ v.value = body

(* every nested message finalized so far has, at its placeholder in the    *)
(* stream, a 4-byte varint whose value is the size of its body             *)
LengthsIn(buf) ==
    \A k \in 1..Len(closed) :
        LengthIs(ParseVarInt(buf, closed[k].pos,
                             closed[k].pos + PROTOZERO_MESSAGE_LENGTH_FIELD_SIZE),
                 closed[k].pos, closed[k].body)

----------------------------------------------------------------------------
(* What the public interface of PbMsg lets a caller do *)

(* msg.finalize() called by the user on the message it holds: finalize is  *)
(* pub fn finalize(&mut self), and append_nested hands cb a &mut PbMsg.    *)
UserFinalize ==
    \E i \in 1..Len(msgs) :
        /\ pc = "writing"
        /\ fault = "none"
        /\ Usable(i)
        /\ Apply(finalize(State, i))
        /\ ret' = msgs[i].size
        /\ log' = LogOf("finalize", i, 0, State, msgs[i].fin)
        /\ UNCHANGED <<pc, nops, closed, out, decoder, items, size_in, field_out,
                       given, res, teVars>>

NextApi ==
    \/ AttachOutput
    \/ PbMsgNew
    \/ AppendType0Field
    \/ AppendType2Field
    \/ AppendFixed32Field
    \/ AppendFixed64Field
    \/ AppendNestedOpen
    \/ AppendNestedClose
    \/ UserFinalize
    \/ FinalizeRoot

SpecApi == Init /\ [][NextApi]_vars

(* C7: no call sequence the interface permits appends bytes to a message   *)
(* on which finalize() has been called.                                    *)
C7_NoAppendAfterFinalize ==
    ~(log.op \in {"append", "open"} /\ log.after_fin /\ fault = "none")

(* Messages of delimited fields and nested messages, finalized by the *)
(* caller at any point.                                               *)
NextFinalize ==
    \/ AttachOutput
    \/ PbMsgNew
    \/ AppendType2Field
    \/ AppendNestedOpen
    \/ AppendNestedClose
    \/ UserFinalize
    \/ FinalizeRoot

SpecFinalize == Init /\ [][NextFinalize]_vars

(* finalize() called on a message right after finalize() on the same *)
(* message *)
FinalizeAgain ==
    /\ log.op = "finalize"
    /\ log'.op = "finalize"
    /\ log'.frame = log.frame
    /\ fault = "none"

(* C18: a second finalize() on a message, with no append since the first,  *)
(* writes nothing: the stream, the chunks, the patches and the placeholder *)
(* stay as they are, no size field is written, and the size returned is    *)
(* the one the first call returned.                                        *)
C18_FinalizeIdempotent ==
    [][FinalizeAgain =>
          /\ writer' = writer
          /\ chunks' = chunks
          /\ patches' = patches
          /\ msgs' = msgs
          /\ finlog' = finlog
          /\ fault' = fault
          /\ ret' = ret]_vars

C18_Witness ==
    /\ log.op = "finalize"
    /\ log.after_fin
    /\ log.frame = 2
    /\ Len(msgs) = 2
    /\ msgs[2].exp = <<>>
    /\ msgs[2].ptr = Null
    /\ Len(finlog) = 1
    /\ ret = msgs[2].size
    /\ fault = "none"

Patched(j) ==
    /\ msgs[j].translated
    /\ \E k \in 1..Len(patchlog) :
          /\ patchlog[k].frame = j
          /\ patchlog[k].chunk = msgs[j].chunk
          /\ patchlog[k].active

(* C19: when an append or a placeholder reservation made through a PbMsg   *)
(* does not fit in the active chunk, every placeholder of a message that   *)
(* is alive and not finalized and that points into that chunk is handed to *)
(* annotate_patch while that chunk is still the active one: no such        *)
(* placeholder is left unpatched in a chunk the stream has left, and       *)
(* annotate_patch is never called for a pointer outside the active chunk.  *)
C19_ProactivePatching ==
    /\ fault = "none" =>
          \A j \in 2..Len(msgs) :
              (~msgs[j].fin /\ msgs[j].chunk < Cur(State)) => Patched(j)
    /\ \A k \in 1..Len(patchlog) : patchlog[k].active

(* C21: every pointer handed to annotate_patch is the pointer that        *)
(* reserve_bytes returned for the placeholder of a message that is not    *)
(* finalized; it is not null, so the assertion of patch never fails; and  *)
(* no placeholder is handed to annotate_patch a second time.              *)
C21_PatchedPointers ==
    /\ fault # "panic: patch of a null pointer"
    /\ \A k \in 1..Len(patchlog) :
          /\ patchlog[k].ptr # Null
          /\ patchlog[k].ptr = patchlog[k].reserved
          /\ ~patchlog[k].fin
          /\ patchlog[k].npatch = 0
    /\ \A j \in 1..Len(msgs) : msgs[j].npatch <= 1

C21_Witness ==
    /\ fault = "none"
    /\ kind = "heap"
    /\ Len(patchlog) = 2
    /\ Len(msgs) = 3
    /\ patchlog[1].frame = 3
    /\ patchlog[2].frame = 2
    /\ msgs[3].npatch = 1
    /\ msgs[3].ptr = patchlog[1].ptr
    /\ ~InActiveChunk(State, msgs[3].ptr)

(* C23: at every overflow check the placeholders on the writing message's *)
(* chain of ancestors that are not finalized and point into the active    *)
(* chunk are a run that starts at the writing message itself, so the walk *)
(* that stops at the first pointer that is null or outside the active     *)
(* chunk leaves no ancestor's placeholder in the active chunk behind.     *)
C23_WalkSound ==
    \A j \in 1..Len(msgs) : msgs[j].walk_ok

(* Two patches made by one walk of patch_stack *)
SameWalk(a, b) == a.written = b.written /\ a.chunk = b.chunk

----------------------------------------------------------------------------
(* The stream writer used directly *)

StreamOp(r, op, n, over) ==
    /\ Apply(r)
    /\ log' = [LogOf(op, 0, n, r, FALSE) EXCEPT !.oversize = @ \/ over]
    /\ nops' = nops + 1
    /\ UNCHANGED <<pc, ret, closed, out, decoder, items, size_in, field_out,
                   given, res, teVars>>

CanStream ==
    /\ pc \in {"new", "attached"}
    /\ fault = "none"
    /\ nops < MaxStreamOps

(* StreamWriter::append_bytes *)
SwAppendBytes ==
    \E src \in StreamChunks :
        /\ CanStream
        /\ StreamOp(StreamAppendBytes(State, src), "sw_append", Len(src), FALSE)

(* StreamWriter::reserve_bytes *)
SwReserveBytes ==
    \E n \in ReserveSizes, dcheck \in BOOLEAN :
        /\ CanStream
        /\ StreamOp(reserve_bytes(State, n, dcheck).s, "sw_reserve", n, n > cs)

NextStream ==
    \/ AttachOutput
    \/ SwAppendBytes
    \/ SwReserveBytes

SpecStream == Init /\ [][NextStream]_vars

LoudFailures ==
    {"panic: no output", "provider abort: reservation larger than a chunk"}

CursorInv ==
    /\ writer.begin <= writer.write_ptr
    /\ writer.write_ptr <= writer.end
    /\ ~AvailableBytesFails(State)
    /\ ~WrittenSizeFails(State)
    /\ fault \in {"none"} \cup LoudFailures
    /\ available_bytes(State) = writer.end - writer.write_ptr
    /\ get_written_size(State) = writer.written_previously
                                   + (writer.write_ptr - writer.begin)
    /\ Cur(State) = 0 => available_bytes(State) = 0 /\ get_written_size(State) = 0
    /\ Cur(State) > 0 =>
          /\ writer.begin = ChunkBase(Cur(State))
          /\ writer.end = writer.begin + cs

(* C8 as stated: after any sequence of append_bytes and reserve_bytes the  *)
(* cursor lies within its chunk, begin <= write_ptr <= end, the assertions *)
(* of available_bytes and get_written_size hold, and a new writer has 0    *)
(* bytes available and 0 written.                                          *)
C8_AnySequence == CursorInv

(* C8: the same, for sequences in which no reserve_bytes asks for more     *)
(* than a chunk holds (the precondition documented on reserve_bytes).      *)
C8_CursorInvariant == ~log.oversize => CursorInv

C8_Witness ==
    /\ fault = "none"
    /\ ~log.oversize
    /\ log.op = "sw_reserve"
    /\ log.slow
    /\ Cur(State) >= 3
    /\ writer.write_ptr = writer.end

(* C9: get_written_size() grows by exactly k on an append_bytes of k bytes *)
(* and by exactly n on a reserve_bytes of n bytes that return, on the fast *)
(* path and when the call moves the stream into a new chunk; no call makes *)
(* it smaller.                                                             *)
C9_WrittenSize ==
    /\ log.op \in {"sw_append", "sw_reserve"} =>
          /\ get_written_size(State) >= log.before
          /\ fault = "none" => get_written_size(State) = log.before + log.n
    /\ log.op = "none" => get_written_size(State) = 0

C9_Witness ==
    /\ fault = "none"
    /\ log.op = "sw_append"
    /\ log.slow
    /\ log.n > cs
    /\ log.before > 0
    /\ get_written_size(State) = log.before + log.n

----------------------------------------------------------------------------
(* The size field that finalize writes, as a function of the size *)

InitEnc ==
    /\ kind = "heap"
    /\ cs = 16
    /\ writer = NewWriter
    /\ chunks = <<>>
    /\ patches = <<>>
    /\ fault = "none"
    /\ msgs = <<>>
    /\ finlog = <<>>
    /\ patchlog = <<>>
    /\ pc = "enc"
    /\ nops = 0
    /\ ret = 0
    /\ closed = <<>>
    /\ log = NoLog
    /\ out = <<>>
    /\ decoder = PbDecoderNew(<<>>)
    /\ items = <<>>
    /\ size_in \in SizeInputs
    /\ field_out = <<>>
    /\ given = <<>>
    /\ res = <<>>
    /\ TeIdle

(* the loop of PbMsg::finalize over the 4 bytes of the size field *)
EncodeSize ==
    /\ pc = "enc"
    /\ field_out' = SizeFieldBytes(size_in, 0)
    /\ pc' = "enc_done"
    /\ UNCHANGED <<kind, cs, writer, chunks, patches, fault, msgs, finlog, patchlog,
                   nops,
                   ret, closed, log, out, decoder, items, size_in,
                   given, res, teVars>>

NextEnc == EncodeSize

SpecEnc == InitEnc /\ [][NextEnc]_vars

Group(s, i) == (s \div (128 ^ i)) % 128

(* C5: for every size s, finalize writes exactly 4 bytes: bytes 0, 1 and 2 *)
(* hold the 7-bit groups of s, least significant first, with the           *)
(* continuation bit 0x80 set, and byte 3 holds the next group with the     *)
(* continuation bit clear.                                                 *)
C5_PlaceholderFormat ==
    pc = "enc_done" =>
        /\ Len(field_out) = PROTOZERO_MESSAGE_LENGTH_FIELD_SIZE
        /\ \A i \in 0..2 : field_out[i + 1] = 128 + Group(size_in, i)
        /\ field_out[4] = Group(size_in, 3)
        /\ field_out[4] < 128

----------------------------------------------------------------------------
(* PbDecoder over a buffer that was not written by PbMsg *)

(* MSG of pb_decoder.rs tests: counter: 5, payload { str: "hello",        *)
(* single_int: -1 }                                                       *)
TestEventMsg ==
    <<24, 5, 42, 18, 10, 5, 104, 101, 108, 108, 111,
      40, 255, 255, 255, 255, 255, 255, 255, 255, 255, 1>>

TestEventFields ==
    <<Item(3, Varint, 5, <<>>, FALSE, <<>>),
      Item(5, Delimited, 0, <<>>, TRUE,
           <<Item(1, Delimited, 0, <<104, 101, 108, 108, 111>>, FALSE, <<>>),
             Item(5, Varint, 2147483647, <<>>, FALSE, <<>>)>>)>>

(* Well-formed inputs: the fields and the bytes that carry them. *)
Encoded(exp, bytes) == [exp |-> exp, bytes |-> bytes]

DecodePrefixes ==
    {Encoded(<<>>, <<>>),
     Encoded(<<Item(3, Varint, 5, <<>>, FALSE, <<>>)>>, <<24, 5>>),
     Encoded(<<Item(10, Delimited, 0, <<98, 97, 114>>, FALSE, <<>>),
               Item(4, Fixed32, 305419896, <<>>, FALSE, <<>>),
               Item(2, Fixed64, 67305985, <<>>, FALSE, <<>>)>>,
             <<82, 3, 98, 97, 114>> \o <<37, 120, 86, 52, 18>>
                \o <<17, 1, 2, 3, 4, 0, 0, 0, 0>>),
     Encoded(TestEventFields, TestEventMsg)}

DecodeTails ==
    {Encoded(<<>>, <<>>),
     Encoded(<<Item(1, Varint, 1, <<>>, FALSE, <<>>)>>, <<8, 1>>)}

(* Tags whose wire type PbWireType::try_from rejects; field 16 has a *)
(* two-byte tag.                                                     *)
BadWireTypes == {3, 4, 6, 7}
BadTagIds == {1, 16}
BadTags ==
    {<<>>} \cup {<<[id |-> f, wire_type |-> w]>> : f \in BadTagIds, w \in BadWireTypes}

BadTagBytes(bad) ==
    IF bad = <<>> THEN <<>>
    ELSE pb_write_varint(pb_make_tag(bad[1].id, bad[1].wire_type))

ParserLibs == {"strict", "lenient"}

MaxPolls == 2

InitDecode ==
    /\ kind = "heap"
    /\ cs = 16
    /\ writer = NewWriter
    /\ chunks = <<>>
    /\ patches = <<>>
    /\ fault = "none"
    /\ msgs = <<>>
    /\ finlog = <<>>
    /\ patchlog = <<>>
    /\ pc = "done"
    /\ nops = 0
    /\ ret = 0
    /\ closed = <<>>
    /\ log = NoLog
    /\ \E pre \in DecodePrefixes, bad \in BadTags, tail \in DecodeTails :
          /\ given = [pre |-> pre.exp, bad |-> bad, tail |-> tail.exp]
          /\ out = pre.bytes \o BadTagBytes(bad) \o tail.bytes
    /\ \E lib \in ParserLibs : decoder = PbDecoderFor(<<>>, lib)
    /\ items = <<>>
    /\ size_in = 0
    /\ field_out = <<>>
    /\ res = <<>>
    /\ TeIdle

(* A call of PbDecoder::next on an iterator that has returned None *)
DecoderNextAgain ==
    /\ pc = "decoded"
    /\ nops < MaxPolls
    /\ Yielded(PbDecoderNext(out, decoder))
    /\ nops' = nops + 1
    /\ UNCHANGED <<kind, cs, writer, chunks, patches, fault, msgs, finlog, patchlog,
                   ret, closed, log, out, size_in, field_out, given, res, teVars>>

NextDecode ==
    \/ DecoderNew
    \/ DecoderNext
    \/ DecoderNextAgain

SpecDecode == InitDecode /\ [][NextDecode]_vars

HasBadTag == given.bad # <<>>

ErrorItem(g, bad) ==
    /\ ~g.ok
    /\ g.kind = "InvalidWireType"
    /\ g.wire_type = bad.wire_type

(* C11: a tag whose wire type is not 0, 1, 2 or 5 makes the iterator yield *)
(* exactly one Err(InvalidWireType(wire_type)) item, after the items of    *)
(* the fields before the tag, and every later call of next returns None:   *)
(* no item follows an error item.                                          *)
C11_OneTerminalError ==
    /\ \A k \in 1..Len(items) : ~items[k].ok => k = Len(items)
    /\ (pc = "decoded" /\ HasBadTag) =>
          /\ Len(items) = Len(given.pre) + 1
          /\ ErrorItem(items[Len(items)], given.bad[1])

InOrder(exp, got, buf) ==
    /\ Len(got) <= Len(exp)
    /\ \A k \in 1..Len(got) : SameField(exp[k], got[k], buf)

(* C12: the iteration ends: every item consumes at least one byte of the   *)
(* buffer, so there are at most as many items as bytes. On a well-formed   *)
(* buffer the items are the fields, one each and in order, and next gives  *)
(* None exactly when the cursor is at the end of the buffer; an empty      *)
(* buffer gives no item.                                                   *)
C12_Terminates ==
    /\ Len(items) <= decoder.read_ptr
    /\ decoder.read_ptr <= decoder.end_ptr
    /\ pc # "done" => decoder.end_ptr = Len(out)
    /\ out = <<>> => items = <<>>
    /\ (~HasBadTag /\ pc # "done") =>
          /\ InOrder(given.pre \o given.tail, items, out)
          /\ PbDecoderNext(out, decoder).some <=> decoder.read_ptr < Len(out)
          /\ pc = "decoded" =>
                /\ Len(items) = Len(given.pre) + Len(given.tail)
                /\ decoder.read_ptr = Len(out)

C12_Witness ==
    /\ pc = "decoded"
    /\ ~HasBadTag
    /\ Len(items) >= 3
    /\ nops = MaxPolls
    /\ decoder.read_ptr = Len(out)

----------------------------------------------------------------------------
(* pb_utils.rs on integers of full width. A u64 or i64 is four 16-bit      *)
(* limbs, least significant first; a u32 or i32 is two. A signed value is  *)
(* its two's complement.                                                   *)

(* The limbs as a tuple *)
Limbs(f) ==
    IF Len(f) = 2 THEN <<f[1], f[2]>>
    ELSE IF Len(f) = 4 THEN <<f[1], f[2], f[3], f[4]>>
    ELSE <<f[1], f[2], f[3], f[4], f[5], f[6], f[7], f[8]>>

Zero(n) == Limbs([i \in 1..n |-> 0])

(* the limbs of a non-negative value below 2^31 *)
FromInt(v, n) ==
    Limbs([i \in 1..n |-> IF i = 1 THEN v % 65536 ELSE IF i = 2 THEN v \div 65536 ELSE 0])

Not(w) == Limbs([i \in 1..Len(w) |-> 65535 - w[i]])

FromSigned(v, n) == IF v >= 0 THEN FromInt(v, n) ELSE Not(FromInt(-(v + 1), n))

(* value as u64 of a u32 *)
Widen(w) == w \o Zero(4 - Len(w))

BelowHex100(w) == w[1] < 256 /\ \A i \in 2..Len(w) : w[i] = 0

(* cur_value >= 0x80 is false *)
BelowHex80(w) == w[1] < 128 /\ \A i \in 2..Len(w) : w[i] = 0

Shr6(w) ==
    Limbs([i \in 1..Len(w) |->
        (w[i] \div 64) + (IF i < Len(w) THEN (w[i + 1] % 64) * 1024 ELSE 0)])

(* cur_value >>= 7 *)
Shr7(w) ==
    Limbs([i \in 1..Len(w) |->
        (w[i] \div 128) + (IF i < Len(w) THEN (w[i + 1] % 128) * 512 ELSE 0)])

(* pb_write_varint(value: u64, dst): the bytes written, dst[0] first *)
RECURSIVE pb_write_varint_u64(_)
pb_write_varint_u64(cur_value) ==
    IF BelowHex80(cur_value) THEN <<cur_value[1] % 128>>
    ELSE <<(cur_value[1] % 128) + 128>> \o pb_write_varint_u64(Shr7(cur_value))

(* value |= (group as u64) << shift, for shift < 64: the bits pushed past *)
(* bit 63 are lost. The group lands on bits that are still zero, so the   *)
(* or is a sum.                                                           *)
OrShifted(value, group, shift) ==
    Limbs([i \in 1..4 |->
        value[i]
        + (IF i = (shift \div 16) + 1 THEN (group * (2 ^ (shift % 16))) % 65536
           ELSE IF i = (shift \div 16) + 2
           THEN (group * (2 ^ (shift % 16))) \div 65536
           ELSE 0)])

ShiftLimitLoose(shift) == shift < 77

(* shift < 64 *)
ShiftLimit(shift) == shift < 64

(* pb_parse_varint(src): (value, consumed bytes), or (0, 0) *)
RECURSIVE ParseVarintLoop(_, _, _, _)
ParseVarintByte(src, offset, value, shift, byte) ==
    IF byte < 128 THEN [value |-> value, len |-> offset]
    ELSE ParseVarintLoop(src, offset, value, shift + 7)

ParseVarintLoop(src, offset, value, shift) ==
    IF offset < Len(src) /\ ShiftLimit(shift)
    THEN ParseVarintByte(src, offset + 1,
                         OrShifted(value, src[offset + 1] % 128, shift),
                         shift, src[offset + 1])
    ELSE [value |-> Zero(4), len |-> 0]

pb_parse_varint(src) == ParseVarintLoop(src, 0, Zero(4), 0)

(* value << 1 *)
Shl1(w) ==
    Limbs([i \in 1..Len(w) |->
        ((w[i] * 2) % 65536) + (IF i > 1 THEN w[i - 1] \div 32768 ELSE 0)])

(* value >> 1 of an unsigned value *)
Shr1(w) ==
    Limbs([i \in 1..Len(w) |->
        (w[i] \div 2) + (IF i < Len(w) THEN (w[i + 1] % 2) * 32768 ELSE 0)])

(* value >> 31 of an i32, value >> 63 of an i64: all ones for a negative *)
(* value, zero otherwise                                                 *)
SignMask(w) == IF w[Len(w)] >= 32768 THEN Not(Zero(Len(w))) ELSE Zero(Len(w))

(* -((value & 1) as i32) as u32 *)
LowBitMask(w) == IF w[1] % 2 = 1 THEN Not(Zero(Len(w))) ELSE Zero(Len(w))

(* a ^ mask, where mask is zero or all ones *)
XorMask(w, mask) == IF mask[1] = 65535 THEN Not(w) ELSE w

ZigZagEncodeNoSign(value) == Shl1(value)

ZigZagEncode(value) == XorMask(Shl1(value), SignMask(value))

ZigZagDecode(value) == XorMask(Shr1(value), LowBitMask(value))

pb_zigzag_encode32(value) == ZigZagEncode(value)

pb_zigzag_encode64(value) == ZigZagEncode(value)

pb_zigzag_decode32(value) == ZigZagDecode(value)

pb_zigzag_decode64(value) == ZigZagDecode(value)

(* pb_make_tag on a u32 field id: (field_id << 3) | wire_type, the bits *)
(* shifted past bit 31 are lost.                                         *)
pb_make_tag_u32(field_id, wire_type) ==
    <<((field_id[1] * 8) % 65536) + wire_type,
      ((field_id[2] * 8) % 65536) + (field_id[1] \div 8192)>>

(* The local buffer of a field emitter: the bytes written into it so far  *)
(* and whether an index went past its end (dst[offset] with offset >=     *)
(* dst.len() panics).                                                     *)
BufWrite(buf, bytes, size) ==
    [written |-> buf.written + Len(bytes),
     oob |-> buf.oob \/ buf.written + Len(bytes) > size]

NoBuf == [written |-> 0, oob |-> FALSE]

TagInto(field_id, wire_type, size) ==
    BufWrite(NoBuf, pb_write_varint_u64(Widen(pb_make_tag_u32(field_id, wire_type))),
             size)

(* append_varint, append_type0_field, append_type2_field (value is the *)
(* length of the data), append_fixed32_field, append_fixed64_field      *)
EmitterBuf(fn, field_id, value) ==
    CASE fn = "append_varint" ->
           BufWrite(NoBuf, pb_write_varint_u64(value), PB_VARINT_MAX_SIZE_64)
      [] fn = "append_type0_field" ->
           BufWrite(TagInto(field_id, Varint,
                            PB_VARINT_MAX_SIZE_32 + PB_VARINT_MAX_SIZE_64),
                    pb_write_varint_u64(value),
                    PB_VARINT_MAX_SIZE_32 + PB_VARINT_MAX_SIZE_64)
      [] fn = "append_type2_field" ->
           BufWrite(TagInto(field_id, Delimited,
                            PB_VARINT_MAX_SIZE_32 + PB_VARINT_MAX_SIZE_64),
                    pb_write_varint_u64(value),
                    PB_VARINT_MAX_SIZE_32 + PB_VARINT_MAX_SIZE_64)
      [] fn = "append_fixed32_field" ->
           BufWrite(TagInto(field_id, Fixed32, PB_VARINT_MAX_SIZE_32 + 4),
                    Zero(4), PB_VARINT_MAX_SIZE_32 + 4)
      [] fn = "append_fixed64_field" ->
           BufWrite(TagInto(field_id, Fixed64, PB_VARINT_MAX_SIZE_32 + 8),
                    Zero(8), PB_VARINT_MAX_SIZE_32 + 8)

(* Inputs. 2^n and 2^n - 1 as limbs. *)
Pow2(n, k) == Limbs([i \in 1..k |-> IF i = (n \div 16) + 1 THEN 2 ^ (n % 16) ELSE 0])

Pow2Less1(n, k) ==
    Limbs([i \in 1..k |-> IF i < (n \div 16) + 1 THEN 65535
                    ELSE IF i = (n \div 16) + 1 THEN (2 ^ (n % 16)) - 1 ELSE 0])

CornerLimbs == {0, 1, 128, 65535}

(* u64 values: the ones where the varint grows by a byte, the corners, *)
(* and 1234 of tests::write_varint.                                    *)
U64Values ==
    {Pow2(7 * g, 4) : g \in 1..9} \cup {Pow2Less1(7 * g, 4) : g \in 1..9}
    \cup {Pow2(32, 4), Pow2Less1(32, 4), Pow2(63, 4), Not(Zero(4)),
          FromInt(1234, 4), FromInt(300, 4)}
    \cup {<<a, b, c, d>> : a \in CornerLimbs, b \in CornerLimbs,
                           c \in CornerLimbs, d \in CornerLimbs}

U32Values ==
    {Pow2(7 * g, 2) : g \in 1..4} \cup {Pow2Less1(7 * g, 2) : g \in 1..4}
    \cup {Pow2(29, 2), Pow2Less1(29, 2), Pow2(31, 2)}
    \cup {<<a, b>> : a \in CornerLimbs, b \in CornerLimbs}

(* What follows the varint in the buffer. *)
VarintTails == {<<>>, <<0>>, <<255>>, <<128, 1>>}

(* i32 values: MIN, MAX, 0, -1, 1 and -132323 of tests::zigzag32. *)
I32Values ==
    {FromSigned(v, 2) : v \in {0, -1, 1, -2, 2, -132323, 82783, 2147483647,
                               (-2147483647) - 1, -2147483647, 1073741824,
                               -1073741824}}
    \cup {<<a, b>> : a \in CornerLimbs \cup {32768}, b \in CornerLimbs \cup {32768}}

I64Values ==
    {FromSigned(v, 4) : v \in {0, -1, 1, -2, 82783, -132323, 2147483647,
                               (-2147483647) - 1}}
    \cup {Pow2(63, 4), Pow2Less1(63, 4), Pow2(62, 4), Not(Pow2(62, 4))}
    \cup {<<a, b, c, d>> : a \in CornerLimbs, b \in CornerLimbs,
                           c \in CornerLimbs, d \in CornerLimbs \cup {32768}}

(* Buffers for pb_parse_varint: n bytes with the continuation bit, then *)
(* possibly a byte without it, then possibly more.                      *)
MaxContinuation == 11

RECURSIVE Run(_, _)
Run(byte, n) == IF n = 0 THEN <<>> ELSE <<byte>> \o Run(byte, n - 1)

ParseInputs ==
    {Run(b, n) \o t \o u : b \in {128, 255, 129}, n \in 0..MaxContinuation,
                           t \in {<<>>, <<0>>, <<1>>, <<127>>},
                           u \in {<<>>, <<5>>}}

EmitterNames ==
    {"append_varint", "append_type0_field", "append_type2_field",
     "append_fixed32_field", "append_fixed64_field"}

CodecInputs ==
    {[fn |-> "varint", v |-> v, tail |-> t] : v \in U64Values, t \in VarintTails}
    \cup {[fn |-> "parse", src |-> b] : b \in ParseInputs}
    \cup {[fn |-> "zigzag32", v |-> v] : v \in I32Values}
    \cup {[fn |-> "zigzag64", v |-> v] : v \in I64Values}
    \cup {[fn |-> "emit", name |-> e, field_id |-> f, v |-> v] :
             e \in EmitterNames, f \in U32Values,
             v \in {Pow2(7 * g, 4) : g \in 1..9} \cup {Zero(4), Not(Zero(4))}}

InitCodec ==
    /\ kind = "heap"
    /\ cs = 16
    /\ writer = NewWriter
    /\ chunks = <<>>
    /\ patches = <<>>
    /\ fault = "none"
    /\ msgs = <<>>
    /\ finlog = <<>>
    /\ patchlog = <<>>
    /\ pc = "codec"
    /\ nops = 0
    /\ ret = 0
    /\ closed = <<>>
    /\ log = NoLog
    /\ out = <<>>
    /\ decoder = PbDecoderNew(<<>>)
    /\ items = <<>>
    /\ size_in = 0
    /\ field_out = <<>>
    /\ given \in CodecInputs
    /\ res = <<>>
    /\ TeIdle

Computed(fn, r) ==
    /\ pc = "codec"
    /\ given.fn = fn
    /\ res' = r
    /\ pc' = "codec_done"
    /\ UNCHANGED <<kind, cs, writer, chunks, patches, fault, msgs, finlog, patchlog,
                   nops, ret, closed, log, out, decoder, items, size_in,
                   field_out, given, teVars>>

ParsedAfter(enc, tail) == [enc |-> enc, parsed |-> pb_parse_varint(enc \o tail)]

(* pb_write_varint(v, buf), then pb_parse_varint on the buffer *)
WriteThenParse ==
    Computed("varint", ParsedAfter(pb_write_varint_u64(given.v), given.tail))

ParseVarint == Computed("parse", pb_parse_varint(given.src))

Decoded32(enc) == [enc |-> enc, dec |-> pb_zigzag_decode32(enc)]

Decoded64(enc) == [enc |-> enc, dec |-> pb_zigzag_decode64(enc)]

ZigZag32 == Computed("zigzag32", Decoded32(pb_zigzag_encode32(given.v)))

ZigZag64 == Computed("zigzag64", Decoded64(pb_zigzag_encode64(given.v)))

EmitField == Computed("emit", EmitterBuf(given.name, given.field_id, given.v))

NextCodec ==
    \/ WriteThenParse
    \/ ParseVarint
    \/ ZigZag32
    \/ ZigZag64
    \/ EmitField

SpecCodec == InitCodec /\ [][NextCodec]_vars

Did(fn) == pc = "codec_done" /\ given.fn = fn

(* C13: for every u64 v, pb_parse_varint on the bytes pb_write_varint *)
(* wrote for v returns v and the number of bytes written, whatever    *)
(* bytes follow them in the buffer.                                   *)
C13_VarintInverse ==
    Did("varint") =>
        /\ res.parsed.value = given.v
        /\ res.parsed.len = Len(res.enc)
        /\ res.parsed.len >= 1

C13_Witness ==
    /\ Did("varint")
    /\ given.v = Not(Zero(4))
    /\ given.tail = <<128, 1>>
    /\ res.parsed = [value |-> given.v, len |-> 10]

RECURSIVE LeadingContinuations(_)
LeadingContinuations(src) ==
    IF src = <<>> \/ Head(src) < 128 THEN 0
    ELSE 1 + LeadingContinuations(Tail(src))

ParseOutcome(src, k, r) ==
    IF k = Len(src) \/ k >= PB_VARINT_MAX_SIZE_64
    THEN r = [value |-> Zero(4), len |-> 0]
    ELSE r.len = k + 1 /\ r.len >= 1

(* C14: pb_parse_varint returns (0, 0) when no byte of the buffer is      *)
(* without the continuation bit, or when the first 10 bytes all carry it; *)
(* in every other case the number of consumed bytes is at least 1 (the    *)
(* bytes up to and including the first one without the bit).              *)
C14_ParseFailure ==
    Did("parse") => ParseOutcome(given.src, LeadingContinuations(given.src), res)

C14_Witness ==
    /\ Did("parse")
    /\ LeadingContinuations(given.src) = PB_VARINT_MAX_SIZE_64
    /\ Len(given.src) > PB_VARINT_MAX_SIZE_64
    /\ given.src[PB_VARINT_MAX_SIZE_64 + 1] = 1
    /\ res = [value |-> Zero(4), len |-> 0]

(* a + b modulo 2^width, limb by limb with carry *)
RECURSIVE AddFrom(_, _, _, _)
AddFrom(a, b, i, carry) ==
    IF i > Len(a) THEN <<>>
    ELSE <<(a[i] + b[i] + carry) % 65536>>
         \o AddFrom(a, b, i + 1, (a[i] + b[i] + carry) \div 65536)

Twice(v) == AddFrom(v, v, 1, 0)

(* 2v for v >= 0 and -2v - 1 for v < 0, modulo 2^width: -x - 1 is the *)
(* complement of x.                                                   *)
ZigZagOf(v) == IF v[Len(v)] < 32768 THEN Twice(v) ELSE Not(Twice(v))

(* C15: decoding the zigzag encoding of v gives v, for i32 and for i64,  *)
(* the minimum values, 0 and -1 included, and the encoding is 2v for     *)
(* v >= 0 and -2v - 1 for v < 0 modulo 2^width; -132323 encodes to       *)
(* 264645 and 82783 to 165566 as in the tests.                           *)
C15_ZigZagInverse ==
    (Did("zigzag32") \/ Did("zigzag64")) =>
        /\ res.dec = given.v
        /\ res.enc = ZigZagOf(given.v)
        /\ given.v = FromSigned(-132323, 2) => res.enc = FromInt(264645, 2)
        /\ given.v = FromSigned(82783, 4) => res.enc = FromInt(165566, 4)

C15_Witness ==
    /\ Did("zigzag64")
    /\ given.v = Pow2(63, 4)
    /\ res.enc = Not(Zero(4))
    /\ res.dec = given.v

(* bits 7g .. 7g+6 of a u64 *)
GroupOf(w, g) ==
    ((w[((7 * g) \div 16) + 1] \div (2 ^ ((7 * g) % 16)))
     + (IF (7 * g) \div 16 < 3
        THEN (w[((7 * g) \div 16) + 2] % 128) * (2 ^ (16 - ((7 * g) % 16)))
        ELSE 0)) % 128

VarintShape(v, enc) ==
    /\ Len(enc) >= 1
    /\ Len(enc) <= PB_VARINT_MAX_SIZE_64
    /\ (v[3] = 0 /\ v[4] = 0) => Len(enc) <= PB_VARINT_MAX_SIZE_32
    /\ \A i \in 1..Len(enc) :
          /\ enc[i] % 128 = GroupOf(v, i - 1)
          /\ enc[i] >= 128 <=> i < Len(enc)
    /\ \A g \in Len(enc)..9 : GroupOf(v, g) = 0
    /\ (v[3] = 0 /\ v[4] = 0 /\ v[2] < 32768) =>
          enc = pb_write_varint(v[1] + (65536 * v[2]))

(* C17: pb_write_varint writes the 7-bit groups of the value, least      *)
(* significant first, with 0x80 on every byte but the last: at most 10   *)
(* bytes for a u64 and at most 5 for a value below 2^32. The local       *)
(* buffers of the field emitters are therefore never indexed past their  *)
(* end, for any field id and any value.                                  *)
C17_VarintBounds ==
    /\ Did("varint") => VarintShape(given.v, res.enc)
    /\ Did("emit") => ~res.oob

C17_Witness ==
    /\ Did("emit")
    /\ given.name = "append_type0_field"
    /\ res.written = PB_VARINT_MAX_SIZE_32 + PB_VARINT_MAX_SIZE_64
    /\ ~res.oob

----------------------------------------------------------------------------
(* The bytes a field emitter adds to the stream *)

(* The minimal base-128 varint of n. *)
RECURSIVE VarintOf(_)
VarintOf(n) == IF n < 128 THEN <<n>> ELSE <<128 + (n % 128)>> \o VarintOf(n \div 128)

(* n (below 2^31) as w little-endian bytes. *)
LeBytes(n, w) == [k \in 1..w |-> IF k <= 4 THEN (n \div (256 ^ (k - 1))) % 256 ELSE 0]

(* The four bytes of a length placeholder; -1 stands for a byte whose *)
(* value this property leaves open.                                   *)
Placeholder4 == <<-1, -1, -1, -1>>

(* tag ++ payload of a field; of a nested message, tag ++ 4-byte *)
(* placeholder ++ body.                                          *)
RECURSIVE WireOf(_)
RECURSIVE WireOfAll(_)
WireOf(e) ==
    VarintOf((e.id * 8) + e.wt)
    \o (IF e.nested THEN Placeholder4 \o WireOfAll(e.sub)
        ELSE IF e.wt = 0 THEN VarintOf(e.num)
        ELSE IF e.wt = 1 THEN LeBytes(e.num, 8)
        ELSE IF e.wt = 2 THEN VarintOf(Len(e.bytes)) \o e.bytes
        ELSE LeBytes(e.num, 4))

WireOfAll(exp) == IF exp = <<>> THEN <<>> ELSE WireOf(Head(exp)) \o WireOfAll(Tail(exp))

IsWire(want, got) ==
    /\ Len(got) = Len(want)
    /\ \A k \in 1..Len(want) : want[k] = -1 \/ want[k] = got[k]

Last(seq) == seq[Len(seq)]

Added(bytes, from) == SubSeq(bytes, from + 1, Len(bytes))

(* C16: each field emitter adds exactly tag ++ payload to the stream, the  *)
(* tag being the varint of (field_id << 3) | wire_type: wire type 0 and    *)
(* the varint of the value, wire type 1 and 8 little-endian bytes, wire    *)
(* type 2 with the minimal varint of the length and then the data, wire    *)
(* type 5 and 4 little-endian bytes; append_nested adds the tag with wire  *)
(* type 2 and 4 placeholder bytes, the body follows them, and the whole    *)
(* finalized message is the concatenation of its fields.                   *)
C16_FieldWireFormat ==
    /\ (pc = "writing" /\ fault = "none" /\ log.op = "append") =>
          /\ get_written_size(State) = Len(StreamBytes(State))
          /\ IsWire(WireOf(Last(msgs[log.frame].exp)),
                    Added(StreamBytes(State), log.before))
    /\ (pc = "writing" /\ fault = "none" /\ log.op = "open") =>
          /\ IsWire(VarintOf((Last(msgs).id * 8) + 2) \o Placeholder4,
                    Added(StreamBytes(State), log.before))
          /\ Last(msgs).start = get_written_size(State)
    /\ (pc = "writing" /\ fault = "none" /\ log.op = "close") =>
          IsWire(WireOf(Last(Last(msgs).exp)),
                 Added(StreamBytes(State),
                       Last(closed).pos
                         - Len(VarintOf((Last(Last(msgs).exp).id * 8) + 2))))
    /\ pc = "done" => IsWire(WireOfAll(RootExp), out)

C16_Witness ==
    /\ pc = "writing"
    /\ fault = "none"
    /\ log.op = "close"
    /\ Len(chunks) >= 2
    /\ Len(Last(Last(msgs).exp).sub) = 2
    /\ IsWire(WireOf(Last(Last(msgs).exp)),
              Added(StreamBytes(State), Last(closed).pos - 1))

----------------------------------------------------------------------------
(* The size field of finalize read back as a varint *)

(* The size field followed by the first byte of the body. *)
SizeFieldRead == pb_parse_varint(field_out \o <<1>>)

(* C22: for every size s, the four bytes finalize writes are a varint that *)
(* ends at the fourth byte and decodes to s modulo 2^28: to s itself for   *)
(* s <= 2^28 - 1, and to the wrapped value for a larger s.                 *)
C22_LengthWraps ==
    pc = "enc_done" =>
        /\ Len(field_out) = PROTOZERO_MESSAGE_LENGTH_FIELD_SIZE
        /\ SizeFieldRead.len = PROTOZERO_MESSAGE_LENGTH_FIELD_SIZE
        /\ SizeFieldRead.value = FromInt(size_in % 268435456, 4)

(* The part of C22 about sizes up to 2^28 - 1, and the sizes above whose *)
(* bit 28 is clear.                                                      *)
C22_InRange ==
    (pc = "enc_done" /\ (size_in \div 268435456) % 2 = 0) =>
        /\ SizeFieldRead.len = PROTOZERO_MESSAGE_LENGTH_FIELD_SIZE
        /\ SizeFieldRead.value = FromInt(size_in % 268435456, 4)

----------------------------------------------------------------------------
(* StreamWriter::append_byte *)

ByteInputs == {0, 1, 127, 255}

(* StreamWriter::append_byte(value); ghost: ret keeps the value. *)
SwAppendByte ==
    \E value \in ByteInputs :
        /\ CanStream
        /\ Apply(StreamAppendByte(State, value))
        /\ log' = LogOf("sw_append_byte", 0, 1, StreamAppendByte(State, value),
                        FALSE)
        /\ nops' = nops + 1
        /\ ret' = value
        /\ UNCHANGED <<pc, closed, out, decoder, items, size_in, field_out,
                       given, res, teVars>>

NextAppendByte ==
    \/ AttachOutput
    \/ SwAppendBytes
    \/ SwReserveBytes
    \/ SwAppendByte

SpecAppendByte == Init /\ [][NextAppendByte]_vars

(* C24: append_byte(value) on a stream that has an output returns       *)
(* normally, leaves value in the byte before the write cursor, and adds *)
(* exactly 1 to get_written_size().                                     *)
C24_AppendByte ==
    (log.op = "sw_append_byte" /\ writer.impl_) =>
        /\ fault = "none"
        /\ get_written_size(State) = log.before + 1
        /\ writer.write_ptr > writer.begin
        /\ chunks[Cur(State)].bytes[writer.write_ptr - writer.begin] = ret

----------------------------------------------------------------------------
(* The decoder on buffers that end in the middle of a field *)

(* The first bytes of a field whose rest is missing: a tag that does not  *)
(* end, a tag alone, a varint that does not end, a length with fewer      *)
(* bytes after it than it counts, a fixed32 and a fixed64 cut short; and  *)
(* no bytes, for a buffer that is complete.                               *)
Cuts ==
    {<<>>, <<128>>, <<24>>, <<24, 128>>, <<82>>, <<82, 3, 98>>,
     <<37, 1, 2>>, <<17, 1, 2, 3>>, <<82, 128>>}

InitTruncated ==
    /\ kind = "heap"
    /\ cs = 16
    /\ writer = NewWriter
    /\ chunks = <<>>
    /\ patches = <<>>
    /\ fault = "none"
    /\ msgs = <<>>
    /\ finlog = <<>>
    /\ patchlog = <<>>
    /\ pc = "done"
    /\ nops = 0
    /\ ret = 0
    /\ closed = <<>>
    /\ log = NoLog
    /\ \E pre \in DecodePrefixes, bad \in BadTags, cut \in Cuts :
          /\ given = [pre |-> pre.exp, bad |-> bad, tail |-> <<>>, cut |-> cut]
          /\ out = pre.bytes \o BadTagBytes(bad) \o cut
    /\ \E lib \in ParserLibs : decoder = PbDecoderFor(<<>>, lib)
    /\ items = <<>>
    /\ size_in = 0
    /\ field_out = <<>>
    /\ res = <<>>
    /\ TeIdle

SpecTruncated == InitTruncated /\ [][NextDecode]_vars

(* The parse step at the cursor reports a status other than success. *)
ParseNotOk == ParseField(out, decoder).status # "ok"

(* The call of next returned None and yielded nothing. *)
ReturnedNone == items' = items /\ decoder' = decoder /\ pc' = "decoded"

(* The items of an iteration that has ended are the fields before the cut, *)
(* each an Ok item, as on the buffer without the cut.                      *)
EndsAsComplete ==
    (pc = "decoded" /\ ~HasBadTag) =>
        /\ Len(items) = Len(given.pre)
        /\ InOrder(given.pre, items, out)
        /\ \A k \in 1..Len(items) : items[k].ok

(* C25: whenever the parse step reports a status other than success, also *)
(* on a buffer that ends in the middle of a field, next returns None and  *)
(* yields no error item; the iteration over a truncated buffer ends as    *)
(* the one over the complete buffer does.                                 *)
C25_TruncatedEndsQuietly ==
    /\ []EndsAsComplete
    /\ [][(pc \in {"decoding", "decoded"} /\ ParseNotOk) => ReturnedNone]_vars

C25_Witness ==
    /\ pc = "decoded"
    /\ ~HasBadTag
    /\ given.cut = <<82, 3, 98>>
    /\ Len(items) = 3
    /\ decoder.read_ptr = Len(out) - 3
    /\ ParseField(out, decoder).status = "error"
    /\ nops = MaxPolls

----------------------------------------------------------------------------
(* track_event.rs: the module track_event_categories! defines.            *)
(* The category implementations (the PerfettoTeCategoryImpl, PerfettoTeHl *)
(* and PerfettoTeLl functions) are C functions reached over FFI.          *)

MaxCalls == 3

CallbackKinds == {"noop", "emit"}

PbIdle ==
    /\ kind = "heap"
    /\ cs = 16
    /\ writer = NewWriter
    /\ chunks = <<>>
    /\ patches = <<>>
    /\ fault = "none"
    /\ msgs = <<>>
    /\ finlog = <<>>
    /\ patchlog = <<>>
    /\ pc = "done"
    /\ nops = 0
    /\ ret = 0
    /\ closed = <<>>
    /\ log = NoLog
    /\ out = <<>>
    /\ decoder = PbDecoderNew(<<>>)
    /\ items = <<>>
    /\ size_in = 0
    /\ field_out = <<>>
    /\ given = <<>>
    /\ res = <<>>

InitTe == PbIdle /\ TeIdle

(* One call in progress on a thread: the function, where it is, its      *)
(* category index, the callback it was given, the index of its loop over *)
(* CATEGORIES, and the pointer is_enabled has read.                      *)
Frame(op, at, cat, cb) ==
    [op |-> op, pc |-> at, cat |-> cat, cb |-> cb, k |-> 1, ptr |-> AtomicFalse]

Top(t) == threads[t].stack[Len(threads[t].stack)]

At(t, op, at) ==
    /\ threads[t].stack # <<>>
    /\ Top(t).op = op
    /\ Top(t).pc = at

(* The calls made so far, by the threads 1..n *)
RECURSIVE Calls(_)
Calls(n) == IF n = 0 THEN 0 ELSE threads[n].calls + Calls(n - 1)

(* The thread is free to make a call of its own. *)
CanCall(t) == threads[t].stack = <<>> /\ Calls(NThreads) < MaxCalls

(* The thread is inside a callback that emits a track event. *)
InCallback(t) ==
    /\ threads[t].stack # <<>>
    /\ Top(t).pc = "in_cb"
    /\ Top(t).cb = "emit"

Entered(t, f) ==
    [threads EXCEPT ![t].stack = Append(@, f),
                    ![t].calls = IF threads[t].stack = <<>> THEN @ + 1 ELSE @,
                    ![t].ret = "none"]

Moved(t, at) == [threads EXCEPT ![t].stack[Len(threads[t].stack)].pc = at]

NextCategory(t, at) ==
    [threads EXCEPT ![t].stack[Len(threads[t].stack)] =
        IF @.k < CATEGORY_COUNT THEN [@ EXCEPT !.k = @ + 1, !.pc = at[1]]
        ELSE [@ EXCEPT !.pc = at[2]]]

(* The callback that made the call goes on and returns. *)
Resumed(st) ==
    IF st # <<>> /\ st[Len(st)].pc = "in_cb"
    THEN [st EXCEPT ![Len(st)].pc = "ret"]
    ELSE st

Returned(t, r) ==
    [threads EXCEPT ![t].stack = Resumed(SubSeq(@, 1, Len(@) - 1)),
                    ![t].ret = r]

(* A call that takes the lock, finds nothing to do and returns at once. *)
Refused(t, r) ==
    [threads EXCEPT ![t].calls = @ + 1, ![t].ret = r]

LockAlways(owner) == TRUE

(* Mutex::lock of std::sync::Mutex: the caller goes on once no thread     *)
(* owns the mutex. A thread that owns it already waits for itself.        *)
CanLock(owner) == owner = 0

RegisterTwice(r) == FALSE

(* if *registered { return Err(CategoriesAlreadyRegisteredError) } *)
AlreadyRegistered(r) == r

(* if !*registered { return Err(CategoriesNotRegisteredError) } *)
NotRegistered(r) == ~r

(* register(): lock CATEGORIES_REGISTERED, test and set the flag. *)
RegisterBegin ==
    \E t \in Threads :
        /\ CanCall(t)
        /\ CanLock(mutex.reg)
        /\ IF AlreadyRegistered(registered)
           THEN /\ threads' = Refused(t, "CategoriesAlreadyRegisteredError")
                /\ UNCHANGED <<registered, mutex>>
           ELSE /\ registered' = TRUE
                /\ mutex' = [mutex EXCEPT !.reg = t]
                /\ threads' = Entered(t, Frame("register", "category", 0, "None"))
        /\ UNCHANGED <<CATEGORIES, CATEGORY_CALLBACKS, impls, session, events,
                       touches, history, pbVars>>

(* PerfettoTeCategoryImplCreate: a new implementation, enabled when the *)
(* session in progress enables its category.                            *)
CategoryImplCreate(c) ==
    [cat |-> c, alive |-> TRUE, enabled |-> c \in session, callback |-> "None"]

(* TrackEventCategory::register of CATEGORIES[k] *)
RegisterCategory ==
    \E t \in Threads :
        /\ At(t, "register", "category")
        /\ impls' = Append(impls, CategoryImplCreate(Top(t).k))
        /\ CATEGORIES' = [CATEGORIES EXCEPT ![Top(t).k] =
                            [impl_ |-> Len(impls) + 1,
                             enabled |-> Len(impls) + 1,
                             cat_iid |-> Len(impls) + 1]]
        /\ threads' = NextCategory(t, <<"category", "callbacks">>)
        /\ UNCHANGED <<registered, mutex, CATEGORY_CALLBACKS, session, events,
                       touches, history, pbVars>>

(* PerfettoTeCategoryImplSetCallback on the implementation of category c *)
SetCallback(c, cb) ==
    [impls EXCEPT ![CATEGORIES[c].impl_].callback = cb]

(* The callback cb has been called and runs on thread t, inside the call *)
(* that thread is making.                                                *)
InvokedCallback(t, cb) ==
    [threads EXCEPT ![t].stack[Len(threads[t].stack)] =
        [@ EXCEPT !.pc = "in_cb", !.cb = cb]]

RECURSIVE SetCallbacks(_, _)
SetCallbacks(im, c) ==
    IF c = 0 THEN im
    ELSE SetCallbacks(IF CATEGORY_CALLBACKS[c] # "None"
                      THEN [im EXCEPT ![CATEGORIES[c].impl_].callback =
                                         CATEGORY_CALLBACKS[c]]
                      ELSE im,
                      c - 1)

(* register(): lock CATEGORY_CALLBACKS and install the callbacks set so far *)
RegisterCallbacks ==
    \E t \in Threads :
        /\ At(t, "register", "callbacks")
        /\ CanLock(mutex.cb)
        /\ mutex' = [mutex EXCEPT !.cb = t]
        /\ impls' = SetCallbacks(impls, CATEGORY_COUNT)
        /\ threads' = IF \E c \in session : CATEGORY_CALLBACKS[c] = "emit"
                      THEN InvokedCallback(t, "emit")
                      ELSE Moved(t, "ret")
        /\ UNCHANGED <<registered, CATEGORIES, CATEGORY_CALLBACKS, session, events,
                       touches, history, pbVars>>

(* The mutexes a returning call unlocks: those it owns. *)
Unlocked(t) ==
    [m \in {"reg", "cb"} |-> IF mutex[m] = t THEN 0 ELSE mutex[m]]

(* register(): publish_categories, Ok(()) *)
RegisterReturn ==
    \E t \in Threads :
        /\ At(t, "register", "ret")
        /\ mutex' = Unlocked(t)
        /\ threads' = Returned(t, "Ok")
        /\ history' = Append(history, "register")
        /\ UNCHANGED <<registered, CATEGORIES, CATEGORY_CALLBACKS, impls, session,
                       events, touches, pbVars>>

(* unregister(): lock CATEGORIES_REGISTERED, test and clear the flag. *)
UnregisterBegin ==
    \E t \in Threads :
        /\ CanCall(t)
        /\ CanLock(mutex.reg)
        /\ IF NotRegistered(registered)
           THEN /\ threads' = Refused(t, "CategoriesNotRegisteredError")
                /\ UNCHANGED <<registered, mutex>>
           ELSE /\ registered' = FALSE
                /\ mutex' = [mutex EXCEPT !.reg = t]
                /\ threads' = Entered(t, Frame("unregister", "destroy", 0, "None"))
        /\ UNCHANGED <<CATEGORIES, CATEGORY_CALLBACKS, impls, session, events,
                       touches, history, pbVars>>

(* TrackEventCategory::unregister of CATEGORIES[k]:                  *)
(* PerfettoTeCategoryImplDestroy(self.impl_)                         *)
UnregisterDestroy ==
    \E t \in Threads :
        /\ At(t, "unregister", "destroy")
        /\ IF CATEGORIES[Top(t).k].impl_ = Null
           THEN /\ threads' = Returned(t, "panic: impl_ is null")
                /\ mutex' = Unlocked(t)
                /\ UNCHANGED impls
           ELSE /\ impls' = [impls EXCEPT ![CATEGORIES[Top(t).k].impl_].alive = FALSE]
                /\ threads' = Moved(t, "clear")
                /\ UNCHANGED mutex
        /\ UNCHANGED <<registered, CATEGORIES, CATEGORY_CALLBACKS, session,
                       events, touches, history, pbVars>>

(* TrackEventCategory::unregister of CATEGORIES[k]: impl_ = null,    *)
(* enabled = &perfetto_atomic_false, cat_iid = 0                     *)
UnregisterClear ==
    \E t \in Threads :
        /\ At(t, "unregister", "clear")
        /\ CATEGORIES' = [CATEGORIES EXCEPT ![Top(t).k] = NewCategory]
        /\ threads' = NextCategory(t, <<"destroy", "ret">>)
        /\ UNCHANGED <<registered, mutex, CATEGORY_CALLBACKS, impls, session,
                       events, touches, history, pbVars>>

(* unregister(): publish_categories, Ok(()) *)
UnregisterReturn ==
    \E t \in Threads :
        /\ At(t, "unregister", "ret")
        /\ mutex' = Unlocked(t)
        /\ threads' = Returned(t, "Ok")
        /\ history' = Append(history, "unregister")
        /\ UNCHANGED <<registered, CATEGORIES, CATEGORY_CALLBACKS, impls, session,
                       events, touches, pbVars>>

(* A category in use: ghost record of what emit(), trace() or           *)
(* is_category_enabled() found when it used CATEGORIES[c].               *)
Touch(op, t, c, h) ==
    [op |-> op, thread |-> t, cat |-> c, registered |-> registered,
     impl_ |-> h, alive |-> h # Null /\ impls[h].alive]

TrackEvent(type, t, c, scope) ==
    [type |-> type, thread |-> t, cat |-> c, scope |-> scope]

(* PerfettoTeHlEmitImpl: one event for the instance of the session that *)
(* enables the category, none when no session does.                     *)
Emitted(h, e) ==
    IF h # Null /\ impls[h].alive /\ impls[h].enabled
    THEN Append(events, e)
    ELSE events

(* emit(category_index, variant, ctx): lock CATEGORIES_REGISTERED; called *)
(* by a thread, or by a callback that emits a track event.                *)
EmitLock ==
    \E t \in Threads, c \in Categories :
        /\ CanCall(t) \/ (InCallback(t) /\ c = Top(t).cat)
        /\ CanLock(mutex.reg)
        /\ mutex' = [mutex EXCEPT !.reg = t]
        /\ threads' = Entered(t, Frame("emit", "body", c, "None"))
        /\ UNCHANGED <<registered, CATEGORIES, CATEGORY_CALLBACKS, impls, session,
                       events, touches, history, pbVars>>

(* emit(): if *registered { CATEGORIES[category_index].emit(variant, ctx) } *)
(* and the return, which unlocks.                                           *)
EmitBody ==
    \E t \in Threads :
        /\ At(t, "emit", "body")
        /\ mutex' = [mutex EXCEPT !.reg = 0]
        /\ IF ~registered
           THEN /\ threads' = Returned(t, "Ok")
                /\ UNCHANGED <<events, touches>>
           ELSE /\ touches' = Append(touches,
                                     Touch("emit", t, Top(t).cat,
                                           CATEGORIES[Top(t).cat].impl_))
                /\ threads' = Returned(t,
                                 IF CATEGORIES[Top(t).cat].impl_ = Null
                                 THEN "panic: impl_ is null" ELSE "Ok")
                /\ events' = Emitted(CATEGORIES[Top(t).cat].impl_,
                                     TrackEvent("Instant", t, Top(t).cat, 0))
        /\ UNCHANGED <<registered, CATEGORIES, CATEGORY_CALLBACKS, impls, session,
                       history, pbVars>>

(* trace(category_index, cb): lock CATEGORIES_REGISTERED *)
TraceLock ==
    \E t \in Threads, c \in Categories, cb \in CallbackKinds :
        /\ CanCall(t)
        /\ CanLock(mutex.reg)
        /\ mutex' = [mutex EXCEPT !.reg = t]
        /\ threads' = Entered(t, Frame("trace", "body", c, cb))
        /\ UNCHANGED <<registered, CATEGORIES, CATEGORY_CALLBACKS, impls, session,
                       events, touches, history, pbVars>>

(* The iterator of PerfettoTeLlImplBegin has an instance. *)
HasInstance(h) == h # Null /\ impls[h].alive /\ impls[h].enabled

(* trace(): if *registered { CATEGORIES[category_index].trace(cb) }: cb is *)
(* called for the instance of the session that enables the category.       *)
TraceBody ==
    \E t \in Threads :
        /\ At(t, "trace", "body")
        /\ IF ~registered
           THEN /\ threads' = Moved(t, "ret")
                /\ UNCHANGED touches
           ELSE /\ touches' = Append(touches,
                                     Touch("trace", t, Top(t).cat,
                                           CATEGORIES[Top(t).cat].impl_))
                /\ threads' = IF /\ HasInstance(CATEGORIES[Top(t).cat].impl_)
                                 /\ Top(t).cb = "emit"
                              THEN Moved(t, "in_cb")
                              ELSE Moved(t, "ret")
        /\ UNCHANGED <<registered, mutex, CATEGORIES, CATEGORY_CALLBACKS, impls,
                       session, events, history, pbVars>>

TraceReturn ==
    \E t \in Threads :
        /\ At(t, "trace", "ret")
        /\ mutex' = Unlocked(t)
        /\ threads' = Returned(t, "Ok")
        /\ UNCHANGED <<registered, CATEGORIES, CATEGORY_CALLBACKS, impls, session,
                       events, touches, history, pbVars>>

(* set_category_callback(category_index, cb): lock CATEGORIES_REGISTERED *)
SetCallbackLock ==
    \E t \in Threads, c \in Categories, cb \in CallbackKinds :
        /\ CanCall(t)
        /\ CanLock(mutex.reg)
        /\ mutex' = [mutex EXCEPT !.reg = t]
        /\ threads' = Entered(t, Frame("set_category_callback", "body", c, cb))
        /\ UNCHANGED <<registered, CATEGORIES, CATEGORY_CALLBACKS, impls, session,
                       events, touches, history, pbVars>>

(* set_category_callback(): lock CATEGORY_CALLBACKS, replace the callback, *)
(* and install it when registered; PerfettoTeCategoryImplSetCallback calls *)
(* the callback at once for the instance that enables the category.        *)
SetCallbackBody ==
    \E t \in Threads :
        /\ At(t, "set_category_callback", "body")
        /\ CanLock(mutex.cb)
        /\ mutex' = [mutex EXCEPT !.cb = t]
        /\ CATEGORY_CALLBACKS' = [CATEGORY_CALLBACKS EXCEPT ![Top(t).cat] = Top(t).cb]
        /\ IF registered
           THEN /\ impls' = SetCallback(Top(t).cat, Top(t).cb)
                /\ threads' = IF /\ HasInstance(CATEGORIES[Top(t).cat].impl_)
                                 /\ Top(t).cb = "emit"
                              THEN Moved(t, "in_cb")
                              ELSE Moved(t, "ret")
           ELSE /\ threads' = Moved(t, "ret")
                /\ UNCHANGED impls
        /\ UNCHANGED <<registered, CATEGORIES, session, events, touches, history,
                       pbVars>>

SetCallbackReturn ==
    \E t \in Threads :
        /\ At(t, "set_category_callback", "ret")
        /\ mutex' = Unlocked(t)
        /\ threads' = Returned(t, "Ok")
        /\ UNCHANGED <<registered, CATEGORIES, CATEGORY_CALLBACKS, impls, session,
                       events, touches, history, pbVars>>

FlagValue(b) == IF b THEN "true" ELSE "false"

(* is_category_enabled(category_index): the read of CATEGORIES[i].enabled, *)
(* with no lock                                                            *)
IsEnabledRead ==
    \E t \in Threads, c \in Categories :
        /\ CanCall(t)
        /\ threads' = Entered(t, [Frame("is_category_enabled", "load", c, "None")
                                    EXCEPT !.ptr = CATEGORIES[c].enabled])
        /\ UNCHANGED <<registered, mutex, CATEGORIES, CATEGORY_CALLBACKS, impls,
                       session, events, touches, history, pbVars>>

(* TrackEventCategory::is_enabled: the atomic load through the pointer.   *)
(* A load from an implementation that has been destroyed reads freed      *)
(* memory: it gives either value.                                         *)
IsEnabledLoad ==
    \E t \in Threads, freed \in BOOLEAN :
        /\ At(t, "is_category_enabled", "load")
        /\ touches' = Append(touches,
                             Touch("is_category_enabled", t, Top(t).cat, Top(t).ptr))
        /\ threads' = Returned(t,
                         IF Top(t).ptr = AtomicFalse THEN "false"
                         ELSE IF impls[Top(t).ptr].alive
                         THEN FlagValue(impls[Top(t).ptr].enabled)
                         ELSE FlagValue(freed))
        /\ UNCHANGED <<registered, mutex, CATEGORIES, CATEGORY_CALLBACKS, impls,
                       session, events, history, pbVars>>

(* The categories a session enables: "cat1", as the sessions of the  *)
(* tests do: add_enabled_category("cat1"), add_disabled_category("*") *)
SessionCategories == {1}

(* A tracing session that enables category c starts: the flag of the *)
(* category's implementation is set.                                 *)
SessionStart ==
    \E c \in SessionCategories :
        /\ session = {}
        /\ session' = {c}
        /\ impls' = [h \in 1..Len(impls) |->
                       IF impls[h].alive /\ impls[h].cat = c
                       THEN [impls[h] EXCEPT !.enabled = TRUE] ELSE impls[h]]
        /\ UNCHANGED <<registered, mutex, CATEGORIES, CATEGORY_CALLBACKS, threads,
                       events, touches, history, pbVars>>

(* The tracing session stops. *)
SessionStop ==
    /\ session # {}
    /\ session' = {}
    /\ impls' = [h \in 1..Len(impls) |->
                   IF impls[h].alive
                   THEN [impls[h] EXCEPT !.enabled = FALSE] ELSE impls[h]]
    /\ UNCHANGED <<registered, mutex, CATEGORIES, CATEGORY_CALLBACKS, threads,
                   events, touches, history, pbVars>>

NextTe ==
    \/ RegisterBegin
    \/ RegisterCategory
    \/ RegisterCallbacks
    \/ RegisterReturn
    \/ UnregisterBegin
    \/ UnregisterDestroy
    \/ UnregisterClear
    \/ UnregisterReturn
    \/ EmitLock
    \/ EmitBody
    \/ TraceLock
    \/ TraceBody
    \/ TraceReturn
    \/ SetCallbackLock
    \/ SetCallbackBody
    \/ SetCallbackReturn
    \/ SessionStart
    \/ SessionStop

SpecTe == InitTe /\ [][NextTe]_vars

NextEnabled ==
    \/ RegisterBegin
    \/ RegisterCategory
    \/ RegisterCallbacks
    \/ RegisterReturn
    \/ UnregisterBegin
    \/ UnregisterDestroy
    \/ UnregisterClear
    \/ UnregisterReturn
    \/ IsEnabledRead
    \/ IsEnabledLoad
    \/ SessionStart
    \/ SessionStop

SpecEnabled == InitTe /\ [][NextEnabled]_vars

(* The uses of a category that emit() and trace() made *)
EmitTouches == {k \in 1..Len(touches) : touches[k].op \in {"emit", "trace"}}

TouchedWhileRegistered ==
    /\ \A k \in EmitTouches :
          /\ touches[k].registered
          /\ touches[k].impl_ # Null
          /\ touches[k].alive
    /\ \A t \in Threads : threads[t].ret # "panic: impl_ is null"

(* C26: under every interleaving of register(), unregister(), emit() and  *)
(* trace() on the threads, emit() and trace() use a category only while   *)
(* the module is registered, with an implementation handle that is not    *)
(* null (the assertion of TrackEventCategory::emit holds) and not         *)
(* destroyed; and while the module is not registered no call emits an     *)
(* event or uses a category.                                              *)
C26_EmitWhileRegistered ==
    /\ []TouchedWhileRegistered
    /\ [][~registered => (events' = events /\ touches' = touches)]_vars

C26_Witness ==
    \E t \in Threads :
        /\ At(t, "unregister", "clear")
        /\ Len(touches) = 1
        /\ touches[1].op = "emit"
        /\ touches[1].thread # t
        /\ touches[1].impl_ = CATEGORIES[Top(t).k].impl_
        /\ events # <<>>

(* The register() and unregister() calls that returned Ok alternate, *)
(* register() first.                                                 *)
Alternate ==
    \A k \in 1..Len(history) :
        history[k] = IF k % 2 = 1 THEN "register" ELSE "unregister"

(* Thread t made a call that returned the error e in this step. *)
ReturnedError(t, e) ==
    /\ threads[t].stack = <<>>
    /\ threads'[t].stack = <<>>
    /\ threads'[t].calls = threads[t].calls + 1
    /\ threads'[t].ret = e

(* Thread t entered the body of op in this step. *)
Began(t, op) ==
    /\ threads[t].stack = <<>>
    /\ threads'[t].stack # <<>>
    /\ threads'[t].stack[1].op = op

(* C29: the register() and unregister() calls that succeed alternate,     *)
(* starting with register(): register() goes on only when the flag is     *)
(* clear and returns CategoriesAlreadyRegisteredError when it is set,     *)
(* unregister() goes on only when it is set and returns                   *)
(* CategoriesNotRegisteredError when it is clear; a call that returns an  *)
(* error leaves the flag, every category's handle and enabled pointer and *)
(* the callbacks as they were.                                            *)
C29_Alternation ==
    /\ []Alternate
    /\ [][\A t \in Threads :
            /\ ReturnedError(t, "CategoriesAlreadyRegisteredError") =>
                  registered /\ UNCHANGED <<registered, CATEGORIES,
                                            CATEGORY_CALLBACKS, impls, history>>
            /\ ReturnedError(t, "CategoriesNotRegisteredError") =>
                  ~registered /\ UNCHANGED <<registered, CATEGORIES,
                                             CATEGORY_CALLBACKS, impls, history>>
            /\ Began(t, "register") => ~registered /\ registered'
            /\ Began(t, "unregister") => registered /\ ~registered']_vars

C29_Witness ==
    /\ history = <<"register", "unregister">>
    /\ ~registered
    /\ \E t \in Threads :
          /\ threads[t].stack = <<>>
          /\ threads[t].ret = "CategoriesNotRegisteredError"
    /\ \A c \in Categories : CATEGORIES[c] = NewCategory

(* C27: is_category_enabled, called at any time on any thread, loads its  *)
(* result from a flag that is alive: the constant false flag, or the flag *)
(* of an implementation that has not been destroyed.                      *)
C27_LiveFlag ==
    \A k \in 1..Len(touches) :
        touches[k].op = "is_category_enabled" =>
            touches[k].impl_ = AtomicFalse \/ touches[k].alive

(* The calls of the threads under fair scheduling: a thread that can take *)
(* a step takes one.                                                      *)
SpecTeFair ==
    /\ InitTe
    /\ [][NextTe]_vars
    /\ \A t \in Threads : WF_vars(NextTe /\ threads'[t] # threads[t])

(* C28: every call of register(), unregister(), emit(), trace() and       *)
(* set_category_callback() returns, also when the callback given to       *)
(* trace() or a category callback called while it is being installed      *)
(* emits a track event.                                                   *)
C28_CallsReturn ==
    \A t \in Threads : [](threads[t].stack # <<>> => <>(threads[t].stack = <<>>))

----------------------------------------------------------------------------
(* scoped_track_event!, on a registered module *)

(* The statics after register() has returned, with no session and no *)
(* callback.                                                         *)
InitScoped ==
    /\ PbIdle
    /\ registered = TRUE
    /\ mutex = [reg |-> 0, cb |-> 0]
    /\ CATEGORIES = [c \in Categories |->
                       [impl_ |-> c, enabled |-> c, cat_iid |-> c]]
    /\ CATEGORY_CALLBACKS = [c \in Categories |-> "None"]
    /\ impls = [c \in Categories |->
                  [cat |-> c, alive |-> TRUE, enabled |-> FALSE,
                   callback |-> "None"]]
    /\ threads = [t \in Threads |-> NoThread]
    /\ session = {}
    /\ events = <<>>
    /\ touches = <<>>
    /\ history = <<"register">>

(* TrackEventCategory::is_enabled of CATEGORIES[c], read in one step *)
is_category_enabled(c) ==
    /\ CATEGORIES[c].enabled # AtomicFalse
    /\ impls[CATEGORIES[c].enabled].enabled

(* track_event!(category, variant): emit(CATEGORY_INDEX, variant, ctx) *)
(* when is_category_enabled(CATEGORY_INDEX).                           *)
track_event(c, e) ==
    IF is_category_enabled(c) /\ registered
    THEN Emitted(CATEGORIES[c].impl_, e)
    ELSE events

(* The scopes thread t has entered so far *)
OpenScope(t, c) ==
    [Frame("scope", "open", c, "None") EXCEPT !.k = threads[t].calls + 1]

IsScope(f) == f.op = "scope"

(* scoped_track_event!(category, name): track_event_begin!, and a        *)
(* ScopeGuard that lives until the end of the enclosing block.           *)
ScopeEnter ==
    \E t \in Threads, c \in Categories :
        /\ Calls(NThreads) < MaxCalls
        /\ \A k \in 1..Len(threads[t].stack) : IsScope(threads[t].stack[k])
        /\ CanLock(mutex.reg)
        /\ events' = track_event(c, TrackEvent("SliceBegin", t, c,
                                               threads[t].calls + 1))
        /\ threads' = [threads EXCEPT ![t].stack = Append(@, OpenScope(t, c)),
                                      ![t].calls = @ + 1]
        /\ UNCHANGED <<registered, mutex, CATEGORIES, CATEGORY_CALLBACKS, impls,
                       session, touches, history, pbVars>>

(* The end of the block: ScopeGuard::drop of the innermost guard calls *)
(* track_event_end!.                                                   *)
ScopeExit ==
    \E t \in Threads :
        /\ threads[t].stack # <<>>
        /\ IsScope(Top(t))
        /\ CanLock(mutex.reg)
        /\ events' = track_event(Top(t).cat,
                                 TrackEvent("SliceEnd", t, Top(t).cat, Top(t).k))
        /\ threads' = [threads EXCEPT ![t].stack = SubSeq(@, 1, Len(@) - 1)]
        /\ UNCHANGED <<registered, mutex, CATEGORIES, CATEGORY_CALLBACKS, impls,
                       session, touches, history, pbVars>>

NextScoped ==
    \/ ScopeEnter
    \/ ScopeExit
    \/ SessionStart
    \/ SessionStop

SpecScoped == InitScoped /\ [][NextScoped]_vars

(* The scope of event e is still open on its thread. *)
StillOpen(e) ==
    \E k \in 1..Len(threads[e.thread].stack) :
        threads[e.thread].stack[k].k = e.scope

SameScope(a, b) == a.thread = b.thread /\ a.scope = b.scope

(* C30: the slice-begin and slice-end events of scoped_track_event! come  *)
(* in matched pairs, also when a session enables or disables the          *)
(* category while the scope is open: every slice-end follows the          *)
(* slice-begin of its scope, every slice-begin of a scope that has ended  *)
(* is followed by the slice-end of that scope, and a scope that ends      *)
(* after a scope entered before it was entered after that scope ended:    *)
(* nested scopes end in reverse order.                                    *)
C30_MatchedPairs ==
    \A k \in 1..Len(events) :
        /\ events[k].type = "SliceEnd" =>
              \E j \in 1..(k - 1) :
                  events[j].type = "SliceBegin" /\ SameScope(events[j], events[k])
        /\ (events[k].type = "SliceBegin" /\ ~StillOpen(events[k])) =>
              \E j \in (k + 1)..Len(events) :
                  events[j].type = "SliceEnd" /\ SameScope(events[j], events[k])
        /\ \A j \in 1..(k - 1) :
              (/\ events[j].type = "SliceEnd"
               /\ events[k].type = "SliceEnd"
               /\ events[j].thread = events[k].thread
               /\ events[j].scope < events[k].scope) =>
                  \E b \in (j + 1)..(k - 1) :
                      events[b].type = "SliceBegin" /\ SameScope(events[b], events[k])

(* Scopes entered and left with the session unchanged in between *)
C30_Nested ==
    /\ Len(events) = 4
    /\ events[1].type = "SliceBegin"
    /\ events[2].type = "SliceBegin"
    /\ events[3].type = "SliceEnd"
    /\ events[4].type = "SliceEnd"
    /\ SameScope(events[2], events[3])
    /\ SameScope(events[1], events[4])

====
